---- MODULE Spec2Model ----
(***************************************************************************)
(* SafeMed: the hybrid analysis service (backend availability cache, drug  *)
(* routing, fallback), the mapping layer between frontend and backend      *)
(* types, and the rules-based risk engine behind the assess endpoint.      *)
(*                                                                         *)
(* Strings are sequences of one-character strings, so that toLowerCase,    *)
(* trim and includes are computed and not assumed.                         *)
(* Scores are integers 0..100, multipliers carry two decimal digits (2.5   *)
(* is 250), frequencies four (1.0 is 10000).                               *)
(***************************************************************************)
EXTENDS Integers, Sequences, FiniteSets, TLC

----------------------------------------------------------------------------
(* Strings *)

UpperChars == <<"A","B","C","D","E","F","G","H","I","J","K","L","M",
                "N","O","P","Q","R","S","T","U","V","W","X","Y","Z">>
LowerChars == <<"a","b","c","d","e","f","g","h","i","j","k","l","m",
                "n","o","p","q","r","s","t","u","v","w","x","y","z">>

\* upper-case letter -> lower-case letter
lowerOf ==
  [ch \in {UpperChars[i] : i \in 1..Len(UpperChars)} |->
     LowerChars[CHOOSE i \in 1..Len(UpperChars) : UpperChars[i] = ch]]

toLowerChar(ch) == IF ch \in DOMAIN lowerOf THEN lowerOf[ch] ELSE ch

toLowerCase(s) == [i \in 1..Len(s) |-> toLowerChar(s[i])]

RECURSIVE trimStart(_)
trimStart(s) ==
  IF s # <<>> /\ Head(s) = " " THEN trimStart(Tail(s)) ELSE s

RECURSIVE trimEnd(_)
trimEnd(s) ==
  IF s # <<>> /\ s[Len(s)] = " " THEN trimEnd(SubSeq(s, 1, Len(s) - 1)) ELSE s

trim(s) == trimEnd(trimStart(s))

\* String.prototype.includes: sub occurs in s as a contiguous run
\* (the empty string occurs in every string).
includes(s, sub) ==
  \E i \in 1..(Len(s) - Len(sub) + 1) : SubSeq(s, i, i + Len(sub) - 1) = sub

\* Array.prototype.includes
arrayIncludes(arr, x) == \E i \in 1..Len(arr) : arr[i] = x

\* Array.prototype.slice(0, n)
sliceTo(arr, n) == SubSeq(arr, 1, IF Len(arr) < n THEN Len(arr) ELSE n)

Min(a, b) == IF a < b THEN a ELSE b
Max(a, b) == IF a > b THEN a ELSE b

\* The literals the code and the inputs use.
S_ibuprofen  == <<"i","b","u","p","r","o","f","e","n">>
S_salbutamol == <<"s","a","l","b","u","t","a","m","o","l">>
S_aspirin    == <<"a","s","p","i","r","i","n">>
S_advil      == <<"a","d","v","i","l">>
S_motrin     == <<"m","o","t","r","i","n">>
S_nurofen    == <<"n","u","r","o","f","e","n">>
S_brufen     == <<"b","r","u","f","e","n">>
S_ventolin   == <<"v","e","n","t","o","l","i","n">>
S_proventil  == <<"p","r","o","v","e","n","t","i","l">>
S_albuterol  == <<"a","l","b","u","t","e","r","o","l">>
S_empty      == <<>>

\* null, for a string and for a string list
NULL      == <<"null">>
NULL_LIST == << <<"null">> >>

----------------------------------------------------------------------------
(* findMatchingDrug *)

\* const brandMappings, in insertion order (Object.entries order)
brandMappings ==
  << <<S_advil, S_ibuprofen>>, <<S_motrin, S_ibuprofen>>,
     <<S_nurofen, S_ibuprofen>>, <<S_brufen, S_ibuprofen>>,
     <<S_ventolin, S_salbutamol>>, <<S_proventil, S_salbutamol>>,
     <<S_albuterol, S_salbutamol>> >>

\* index of the first TRUE of a sequence of booleans, 0 when none: the
\* iteration at which a loop with an early return returns
FirstIndex(tests) ==
  IF \E i \in 1..Len(tests) : tests[i]
  THEN CHOOSE i \in 1..Len(tests) : tests[i] /\ \A j \in 1..(i - 1) : ~tests[j]
  ELSE 0

\* a bug: the text is trimmed but not lower-cased
findMatchingDrug_caseSensitive(drugText, drugs) ==
  IF drugs = NULL_LIST \/ Len(drugs) = 0 THEN NULL
  ELSE
    LET normalized == trim(drugText)
        partial(i) == includes(normalized, drugs[i]) \/ includes(drugs[i], normalized)
        p == FirstIndex([i \in 1..Len(drugs) |-> partial(i)])
        brand(i) == /\ includes(normalized, brandMappings[i][1])
                    /\ arrayIncludes(drugs, brandMappings[i][2])
        b == FirstIndex([i \in 1..Len(brandMappings) |-> brand(i)])
    IN  IF arrayIncludes(drugs, normalized) THEN normalized
        ELSE IF p # 0 THEN drugs[p]
        ELSE IF b # 0 THEN brandMappings[b][2]
        ELSE NULL

\* a bug: the brand table is used without looking for the generic in the list
findMatchingDrug_unlistedBrand(drugText, drugs) ==
  IF drugs = NULL_LIST \/ Len(drugs) = 0 THEN NULL
  ELSE
    LET normalized == trim(toLowerCase(drugText))
        partial(i) == includes(normalized, drugs[i]) \/ includes(drugs[i], normalized)
        p == FirstIndex([i \in 1..Len(drugs) |-> partial(i)])
        brand(i) == includes(normalized, brandMappings[i][1])
        b == FirstIndex([i \in 1..Len(brandMappings) |-> brand(i)])
    IN  IF arrayIncludes(drugs, normalized) THEN normalized
        ELSE IF p # 0 THEN drugs[p]
        ELSE IF b # 0 THEN brandMappings[b][2]
        ELSE NULL

findMatchingDrug(drugText, drugs) ==
  IF drugs = NULL_LIST \/ Len(drugs) = 0 THEN NULL
  ELSE
    LET normalized == trim(toLowerCase(drugText))
        partial(i) == includes(normalized, drugs[i]) \/ includes(drugs[i], normalized)
        p == FirstIndex([i \in 1..Len(drugs) |-> partial(i)])
        brand(i) == /\ includes(normalized, brandMappings[i][1])
                    /\ arrayIncludes(drugs, brandMappings[i][2])
        b == FirstIndex([i \in 1..Len(brandMappings) |-> brand(i)])
    IN  IF arrayIncludes(drugs, normalized) THEN normalized
        ELSE IF p # 0 THEN drugs[p]
        ELSE IF b # 0 THEN brandMappings[b][2]
        ELSE NULL

----------------------------------------------------------------------------
(* mappingService: frontend profile -> backend profile *)

K_pregnan == <<"p","r","e","g","n","a","n">>
K_breastfeed == <<"b","r","e","a","s","t","f","e","e","d">>
K_lactation == <<"l","a","c","t","a","t","i","o","n">>
K_allerg == <<"a","l","l","e","r","g">>
K_gi_bleed == <<"g","i"," ","b","l","e","e","d">>
K_ulcer == <<"u","l","c","e","r">>
K_heart == <<"h","e","a","r","t">>
K_mi == <<"m","i">>
K_infarction == <<"i","n","f","a","r","c","t","i","o","n">>
K_stroke == <<"s","t","r","o","k","e">>
K_arrhythmia == <<"a","r","r","h","y","t","h","m","i","a">>
K_afib == <<"a","f","i","b">>
K_atrial == <<"a","t","r","i","a","l">>
K_seizure == <<"s","e","i","z","u","r","e">>
K_epilep == <<"e","p","i","l","e","p">>
S_Pregnancy == <<"P","r","e","g","n","a","n","c","y">>
S_HeartDisease == <<"H","e","a","r","t"," ","D","i","s","e","a","s","e">>
S_Asthma == <<"A","s","t","h","m","a">>
S_Allergies == <<"A","l","l","e","r","g","i","e","s">>
S_StomachUlcer == <<"S","t","o","m","a","c","h"," ","U","l","c","e","r">>
S_warfarin == <<"w","a","r","f","a","r","i","n">>

\* An absent optional number (weight_kg, pregnancy_trimester, egfr,
\* potassium, heart_rate) is 0: none of them can be 0 when present.
UNDEFINED_NUM == 0

\* a bug: the conditions are matched as typed, not lower-cased
mapUserProfileToBackend_caseSensitive(profile) ==
  LET conditionsLower == profile.conditions
      has(k) == \E i \in 1..Len(conditionsLower) : includes(conditionsLower[i], k)
  IN  [ age                 |-> profile.age,
        sex                 |-> IF profile.gender = "Male" THEN "male"
                                ELSE IF profile.gender = "Female" THEN "female"
                                ELSE "unknown",
        weight_kg           |-> IF profile.weight # 0 THEN profile.weight ELSE UNDEFINED_NUM,
        pregnant            |-> has(K_pregnan),
        pregnancy_trimester |-> UNDEFINED_NUM,
        breastfeeding       |-> has(K_breastfeed) \/ has(K_lactation),
        conditions          |-> profile.conditions,
        current_medications |-> <<>>,
        allergies           |-> SelectSeq(conditionsLower, LAMBDA c : includes(c, K_allerg)),
        smoker              |-> FALSE,
        alcohol_use         |-> "none",
        egfr                |-> UNDEFINED_NUM,
        potassium           |-> UNDEFINED_NUM,
        heart_rate          |-> UNDEFINED_NUM,
        history_gi_bleed    |-> has(K_gi_bleed) \/ has(K_ulcer),
        history_mi          |-> has(K_heart) \/ has(K_mi) \/ has(K_infarction),
        history_stroke      |-> has(K_stroke),
        history_arrhythmia  |-> has(K_arrhythmia) \/ has(K_afib) \/ has(K_atrial),
        history_seizures    |-> has(K_seizure) \/ has(K_epilep) ]

mapUserProfileToBackend(profile) ==
  LET conditionsLower == [i \in 1..Len(profile.conditions) |-> toLowerCase(profile.conditions[i])]
      has(k) == \E i \in 1..Len(conditionsLower) : includes(conditionsLower[i], k)
  IN  [ age                 |-> profile.age,
        sex                 |-> IF profile.gender = "Male" THEN "male"
                                ELSE IF profile.gender = "Female" THEN "female"
                                ELSE "unknown",
        weight_kg           |-> IF profile.weight # 0 THEN profile.weight ELSE UNDEFINED_NUM,
        pregnant            |-> has(K_pregnan),
        pregnancy_trimester |-> UNDEFINED_NUM,
        breastfeeding       |-> has(K_breastfeed) \/ has(K_lactation),
        conditions          |-> profile.conditions,
        current_medications |-> <<>>,
        allergies           |-> SelectSeq(conditionsLower, LAMBDA c : includes(c, K_allerg)),
        smoker              |-> FALSE,
        alcohol_use         |-> "none",
        egfr                |-> UNDEFINED_NUM,
        potassium           |-> UNDEFINED_NUM,
        heart_rate          |-> UNDEFINED_NUM,
        history_gi_bleed    |-> has(K_gi_bleed) \/ has(K_ulcer),
        history_mi          |-> has(K_heart) \/ has(K_mi) \/ has(K_infarction),
        history_stroke      |-> has(K_stroke),
        history_arrhythmia  |-> has(K_arrhythmia) \/ has(K_afib) \/ has(K_atrial),
        history_seizures    |-> has(K_seizure) \/ has(K_epilep) ]

----------------------------------------------------------------------------
(* Risk engine behind POST /api/v1/assess.  The engine is the backend of   *)
(* this repository; the frontend holds its types (BackendUserProfile,      *)
(* BackendRiskAssessment) and its callers, and the engine is modelled from *)
(* sections 3 and 4.2 of the specification.                                *)

MULT_ONE == 100     \* a multiplier of 1.0
FREQ_ONE == 10000   \* a frequency of 1.0

\* Rule predicates over the patient profile, by tag.
Holds(pred, p) ==
  CASE pred = "pregnancy_trimester_2_3" -> p.pregnant /\ p.pregnancy_trimester \in {2, 3}
    [] pred = "egfr_below_30"           -> p.egfr # UNDEFINED_NUM /\ p.egfr < 30
    [] pred = "history_gi_bleed"        -> p.history_gi_bleed
    [] pred = "history_mi"              -> p.history_mi
    [] pred = "history_arrhythmia"      -> p.history_arrhythmia
    [] pred = "age_65_plus"             -> p.age >= 65
    [] pred = "age_under_12"            -> p.age < 12
    [] pred = "takes_warfarin"          -> arrayIncludes(p.current_medications, S_warfarin)
    [] OTHER                            -> FALSE

ContraindicationRule(pred, reason, detail) ==
  [pred |-> pred, reason |-> reason, detail |-> detail]

\* Optional text fields that are absent are "".
InteractionRule(pred, type, reason, factor, drug, detail, effect, mult) ==
  [pred |-> pred, type |-> type, reason |-> reason, factor |-> factor,
   interacting_drug |-> drug, detail |-> detail, effect |-> effect,
   mechanism |-> "", risk_multiplier |-> mult]

Factor(pred, name, mult) == [pred |-> pred, name |-> name, multiplier |-> mult]

SideEffect(name, severity, freq, factors) ==
  [name |-> name, base_severity |-> severity, base_frequency |-> freq, factors |-> factors]

IbuprofenInteractions ==
  << InteractionRule("history_gi_bleed", "condition", "History of GI bleeding", "", "",
                     "NSAIDs raise the risk of recurrent GI bleeding", "", 250),
     InteractionRule("age_65_plus", "demographic", "", "Age over 65", "",
                     "Higher risk of renal and GI adverse effects", "", 150),
     InteractionRule("takes_warfarin", "drug_interaction", "", "", "warfarin",
                     "", "Increased bleeding risk", 300),
     InteractionRule("history_mi", "condition", "Cardiovascular history", "", "",
                     "NSAIDs raise cardiovascular risk", "", 200),
     InteractionRule("age_under_12", "demographic", "", "Age under 12", "",
                     "Weight-based dosing required", "", 150) >>

IbuprofenRecord ==
  [ drug_name         |-> S_ibuprofen,
    contraindications |-> << ContraindicationRule("pregnancy_trimester_2_3", "Pregnancy",
                               "NSAIDs are contraindicated in the second and third trimester"),
                             ContraindicationRule("egfr_below_30", "Severe renal impairment",
                               "NSAIDs are contraindicated when eGFR is below 30") >>,
    interactions      |-> IbuprofenInteractions,
    side_effects      |-> << SideEffect("GI bleeding", "severe", 400,
                               << Factor("history_gi_bleed", "History of GI bleeding", 250),
                                  Factor("age_65_plus", "Age over 65", 150),
                                  Factor("takes_warfarin", "warfarin", 300) >>),
                             SideEffect("Dyspepsia", "mild", 3000,
                               << Factor("history_gi_bleed", "History of GI bleeding", 250),
                                  Factor("age_65_plus", "Age over 65", 150) >>),
                             SideEffect("Headache", "mild", 200, <<>>) >>,
    default_max_dose  |-> "1200 mg per day",
    monitoring        |-> << "blood pressure", "kidney function", "GI symptoms" >>,
    alternatives      |-> << >> ]

SalbutamolRecord ==
  [ drug_name         |-> S_salbutamol,
    contraindications |-> << ContraindicationRule("age_under_12", "Age under 12",
                               "Not to be used under 12 without a prescription") >>,
    interactions      |-> << InteractionRule("history_arrhythmia", "condition",
                               "History of arrhythmia", "", "",
                               "Beta agonists can provoke arrhythmia", "", 200) >>,
    side_effects      |-> << SideEffect("Tremor", "mild", 1000,
                               << Factor("age_65_plus", "Age over 65", 150) >>),
                             SideEffect("Tachycardia", "moderate", 500,
                               << Factor("history_arrhythmia", "History of arrhythmia", 200) >>) >>,
    default_max_dose  |-> "",
    monitoring        |-> << "heart rate" >>,
    alternatives      |-> << "Ipratropium", "Levalbuterol", "Terbutaline" >> ]

\* The ibuprofen entry with the longer list of side effects of its label.
IbuprofenLabelRecord ==
  [IbuprofenRecord EXCEPT !.side_effects = @ \o
     << SideEffect("Nausea", "mild", 900, <<>>),
        SideEffect("Dizziness", "mild", 300, <<>>),
        SideEffect("Rash", "mild", 100, <<>>),
        SideEffect("Edema", "moderate", 100, <<>>),
        SideEffect("Tinnitus", "mild", 100, <<>>),
        SideEffect("Hypertension", "moderate", 100,
          << Factor("age_65_plus", "Age over 65", 150) >>) >>]

\* The Knowledge Base, in the order the drug list is served.
KnowledgeBase == << IbuprofenRecord, SalbutamolRecord >>

HARD_STOP_WEIGHT   == 50   \* contraindication_score per hard stop
INTERACTION_WEIGHT == 16   \* interaction_score per 1.0 of matched multiplier
AGE_BAND_SCORE     == 10   \* demographic_score of an age under 12 or of 65 and over
PREGNANCY_SCORE    == 10   \* demographic_score of pregnancy
RENAL_SCORE        == 10   \* demographic_score of an eGFR below 60
CONDITION_WEIGHT   == 5    \* condition_score per reported condition

RECURSIVE SumMultipliers(_)
SumMultipliers(rules) ==
  IF rules = <<>> THEN 0 ELSE Head(rules).risk_multiplier + SumMultipliers(Tail(rules))

RECURSIVE ProductOfFactors(_)
ProductOfFactors(factors) ==
  IF factors = <<>> THEN MULT_ONE
  ELSE (Head(factors).multiplier * ProductOfFactors(Tail(factors))) \div MULT_ONE

clamp(x, lo, hi) == Max(lo, Min(hi, x))

\* a bug: the compounded frequency is not clamped
personalize_unclamped(se, p) ==
  LET matched == SelectSeq(se.factors, LAMBDA f : Holds(f.pred, p))
      mult    == ProductOfFactors(matched)
  IN  [ name                   |-> se.name,
        base_severity          |-> se.base_severity,
        personalized_frequency |-> (se.base_frequency * mult) \div MULT_ONE,
        risk_multiplier        |-> mult,
        relevant_factors       |-> [i \in 1..Len(matched) |-> matched[i].name] ]

\* Step 3 of the algorithm: one side effect, personalized.
personalize(se, p) ==
  LET matched == SelectSeq(se.factors, LAMBDA f : Holds(f.pred, p))
      mult    == ProductOfFactors(matched)
  IN  [ name                   |-> se.name,
        base_severity          |-> se.base_severity,
        personalized_frequency |-> clamp((se.base_frequency * mult) \div MULT_ONE, 0, FREQ_ONE),
        risk_multiplier        |-> mult,
        relevant_factors       |-> [i \in 1..Len(matched) |-> matched[i].name] ]

\* a bug: the score bands are tried before the hard stops
riskLevel_scoreFirst(risk_score, hasHardStop) ==
  IF risk_score >= 70 THEN "danger"
  ELSE IF risk_score >= 40 THEN "warning"
  ELSE IF hasHardStop THEN "contraindicated"
  ELSE IF risk_score >= 15 THEN "caution"
  ELSE "safe"

\* a bug: the bands exclude their lower boundary
riskLevel_strict(risk_score, hasHardStop) ==
  IF hasHardStop THEN "contraindicated"
  ELSE IF risk_score > 70 THEN "danger"
  ELSE IF risk_score > 40 THEN "warning"
  ELSE IF risk_score > 15 THEN "caution"
  ELSE "safe"

\* Step 5 of the algorithm.
riskLevel(risk_score, hasHardStop) ==
  IF hasHardStop THEN "contraindicated"
  ELSE IF risk_score >= 70 THEN "danger"
  ELSE IF risk_score >= 40 THEN "warning"
  ELSE IF risk_score >= 15 THEN "caution"
  ELSE "safe"

\* a bug: the sum wraps around instead of saturating
totalScore_wrap(contraindication_score, interaction_score, demographic_score, condition_score) ==
  (contraindication_score + interaction_score + demographic_score + condition_score) % 101

\* a bug: the sum is not clamped
totalScore_unclamped(contraindication_score, interaction_score, demographic_score, condition_score) ==
  contraindication_score + interaction_score + demographic_score + condition_score

\* Step 4 of the algorithm.
totalScore(contraindication_score, interaction_score, demographic_score, condition_score) ==
  clamp(contraindication_score + interaction_score + demographic_score + condition_score, 0, 100)

\* a bug: a maximal score also forbids the drug
canTake_byScore(hard_stops, risk_score) == Len(hard_stops) = 0 /\ risk_score < 100

\* Step 6 of the algorithm: decided by the hard stops, whatever the score.
canTake(hard_stops, risk_score) == Len(hard_stops) = 0

toWarning(r) ==
  [ type |-> r.type, reason |-> r.reason, factor |-> r.factor, detail |-> r.detail,
    interacting_drug |-> r.interacting_drug, effect |-> r.effect,
    mechanism |-> r.mechanism, risk_multiplier |-> r.risk_multiplier ]

evaluate(p, drug) ==
  LET stops    == SelectSeq(drug.contraindications, LAMBDA r : Holds(r.pred, p))
      matched  == SelectSeq(drug.interactions, LAMBDA r : Holds(r.pred, p))
      cscore   == HARD_STOP_WEIGHT * Len(stops)
      iscore   == (INTERACTION_WEIGHT * SumMultipliers(matched)) \div MULT_ONE
      dscore   == (IF p.age < 12 \/ p.age >= 65 THEN AGE_BAND_SCORE ELSE 0)
                  + (IF p.pregnant THEN PREGNANCY_SCORE ELSE 0)
                  + (IF p.egfr # UNDEFINED_NUM /\ p.egfr < 60 THEN RENAL_SCORE ELSE 0)
      hscore   == CONDITION_WEIGHT * Len(p.conditions)
      total    == totalScore(cscore, iscore, dscore, hscore)
  IN  [ drug_name                 |-> drug.drug_name,
        overall_risk_level        |-> riskLevel(total, Len(stops) > 0),
        risk_score                |-> total,
        can_take                  |-> canTake(stops, total),
        hard_stops                |-> [i \in 1..Len(stops) |->
                                        [type |-> "contraindication", reason |-> stops[i].reason,
                                         detail |-> stops[i].detail, severity |-> "critical"]],
        warnings                  |-> [i \in 1..Len(SelectSeq(matched, LAMBDA r : r.risk_multiplier >= 200)) |->
                                        toWarning(SelectSeq(matched, LAMBDA r : r.risk_multiplier >= 200)[i])],
        cautions                  |-> [i \in 1..Len(SelectSeq(matched, LAMBDA r : r.risk_multiplier < 200)) |->
                                        toWarning(SelectSeq(matched, LAMBDA r : r.risk_multiplier < 200)[i])],
        personalized_side_effects |-> [i \in 1..Len(drug.side_effects) |-> personalize(drug.side_effects[i], p)],
        recommended_max_dose      |-> drug.default_max_dose,
        monitoring_required       |-> drug.monitoring,
        alternatives_to_consider  |-> drug.alternatives,
        detailed_breakdown        |-> [ contraindication_score |-> cscore,
                                        interaction_score      |-> iscore,
                                        demographic_score      |-> dscore,
                                        condition_score        |-> hscore,
                                        total_score            |-> total,
                                        factors                |-> [i \in 1..Len(matched) |-> matched[i].pred] ] ]

----------------------------------------------------------------------------
(* mappingService: backend assessment -> frontend AnalysisResult *)

\* a bug: the bands exclude their lower boundary
mapMultiplierToSeverity_strict(multiplier) ==
  IF multiplier > 300 THEN "Critical"
  ELSE IF multiplier > 200 THEN "High"
  ELSE IF multiplier > 150 THEN "Medium"
  ELSE "Low"

mapMultiplierToSeverity(multiplier) ==
  IF multiplier >= 300 THEN "Critical"
  ELSE IF multiplier >= 200 THEN "High"
  ELSE IF multiplier >= 150 THEN "Medium"
  ELSE "Low"

\* a || b || c || d on strings: the first that is not empty (or the last)
firstTruthy(a, b, c, d) ==
  IF a # "" THEN a ELSE IF b # "" THEN b ELSE IF c # "" THEN c ELSE d

\* (personalized_frequency * 100).toFixed(1): tenths of a percent, the nearer
\* one, the larger on a tie.
toFixed1Percent(freq) == (freq + 5) \div 10

riskLevelText(level) ==
  CASE level = "safe"            -> "appears safe for your profile"
    [] level = "caution"         -> "may be used with some caution"
    [] level = "warning"         -> "has notable concerns for your health profile"
    [] level = "danger"          -> "poses significant risks given your health profile"
    [] level = "contraindicated" -> "is not recommended for you"
    [] OTHER                     -> "requires evaluation"

\* a bug: the warnings are looked at before the hard stops
generateSummary_warningsFirst(assessment) ==
  [ drug_name |-> assessment.drug_name,
    phrase    |-> riskLevelText(assessment.overall_risk_level),
    clause    |-> IF Len(assessment.warnings) > 0 THEN "warning(s) to consider"
                  ELSE IF Len(assessment.hard_stops) > 0 THEN "contraindication(s) to be aware of"
                  ELSE IF Len(assessment.cautions) > 0 THEN "Minor precautions apply based on your profile"
                  ELSE "No major concerns were identified based on available data",
    verb      |-> IF Len(assessment.warnings) > 0
                  THEN (IF Len(assessment.warnings) = 1 THEN "is" ELSE "are")
                  ELSE IF Len(assessment.hard_stops) > 0
                  THEN (IF Len(assessment.hard_stops) = 1 THEN "is" ELSE "are")
                  ELSE "",
    count     |-> IF Len(assessment.warnings) > 0 THEN Len(assessment.warnings)
                  ELSE IF Len(assessment.hard_stops) > 0 THEN Len(assessment.hard_stops)
                  ELSE 0 ]

\* The summary as its parts: `${drug_name} ${phrase}. ` followed by one clause.
generateSummary(assessment) ==
  [ drug_name |-> assessment.drug_name,
    phrase    |-> riskLevelText(assessment.overall_risk_level),
    clause    |-> IF Len(assessment.hard_stops) > 0 THEN "contraindication(s) to be aware of"
                  ELSE IF Len(assessment.warnings) > 0 THEN "warning(s) to consider"
                  ELSE IF Len(assessment.cautions) > 0 THEN "Minor precautions apply based on your profile"
                  ELSE "No major concerns were identified based on available data",
    verb      |-> IF Len(assessment.hard_stops) > 0
                  THEN (IF Len(assessment.hard_stops) = 1 THEN "is" ELSE "are")
                  ELSE IF Len(assessment.warnings) > 0
                  THEN (IF Len(assessment.warnings) = 1 THEN "is" ELSE "are")
                  ELSE "",
    count     |-> IF Len(assessment.hard_stops) > 0 THEN Len(assessment.hard_stops)
                  ELSE IF Len(assessment.warnings) > 0 THEN Len(assessment.warnings)
                  ELSE 0 ]

\* The recommendation as its fixed text and the items joined into it.
generateRecommendation(assessment) ==
  IF ~assessment.can_take THEN
    IF Len(assessment.alternatives_to_consider) > 0
    THEN [ text  |-> "Do not take this medication. Consider these alternatives",
           items |-> sliceTo(assessment.alternatives_to_consider, 2), dose |-> "" ]
    ELSE [ text  |-> "Do not take this medication. Please consult your healthcare provider for safer alternatives.",
           items |-> <<>>, dose |-> "" ]
  ELSE IF assessment.recommended_max_dose # "" THEN
    [ text  |-> "You may take this medication. Recommended",
      items |-> IF Len(assessment.monitoring_required) > 0
                THEN sliceTo(assessment.monitoring_required, 2) ELSE <<>>,
      dose  |-> assessment.recommended_max_dose ]
  ELSE IF assessment.overall_risk_level = "warning" THEN
    [ text |-> "Use with caution and consult your healthcare provider before taking.",
      items |-> <<>>, dose |-> "" ]
  ELSE IF assessment.overall_risk_level = "caution" THEN
    [ text |-> "Generally safe to use, but follow package directions and stop if you experience adverse effects.",
      items |-> <<>>, dose |-> "" ]
  ELSE
    [ text |-> "This medication appears safe for you. Follow standard dosing guidelines.",
      items |-> <<>>, dose |-> "" ]

\* a bug: the score is clamped but not inverted
safetyScoreOf_notInverted(risk_score) == Max(0, Min(100, risk_score))

\* safetyScore: backend 0 = safe becomes frontend 100 = safe
safetyScoreOf(risk_score) == Max(0, Min(100, 100 - risk_score))

\* personalized_side_effects.map(...)
sideEffectRisks(assessment) ==
  [ i \in 1..Len(assessment.personalized_side_effects) |->
      LET se == assessment.personalized_side_effects[i]
      IN  [ condition   |-> se.name,
            probability |-> [label |-> "percent", tenths |-> toFixed1Percent(se.personalized_frequency)],
            severity    |-> mapMultiplierToSeverity(se.risk_multiplier),
            explanation |-> IF Len(se.relevant_factors) > 0
                            THEN [text |-> "Risk elevated due to", factors |-> se.relevant_factors]
                            ELSE [text |-> "Based on medication profile", factors |-> <<>>] ] ]

\* warnings.forEach(...): each warning is pushed unless an entry of the same
\* condition is already in the list.
RECURSIVE addWarnings(_, _)
addWarnings(risks, warnings) ==
  IF warnings = <<>> THEN risks
  ELSE
    LET w           == Head(warnings)
        condition   == firstTruthy(w.reason, w.factor, w.interacting_drug, "Warning")
        explanation == firstTruthy(w.detail, w.effect, w.mechanism, "")
        pushed      == IF \E i \in 1..Len(risks) : risks[i].condition = condition
                       THEN risks
                       ELSE Append(risks, [ condition   |-> condition,
                                            probability |-> [label |-> "Elevated", tenths |-> 0],
                                            severity    |-> "High",
                                            explanation |-> [text |-> explanation, factors |-> <<>>] ])
    IN  addWarnings(pushed, Tail(warnings))

contraindicationsOf(assessment) ==
  LET drugWarnings == SelectSeq(assessment.warnings,
                        LAMBDA w : w.type = "drug_interaction" /\ w.interacting_drug # "")
  IN  [ i \in 1..Len(assessment.hard_stops) |->
          [text |-> assessment.hard_stops[i].reason, detail |-> assessment.hard_stops[i].detail] ]
      \o
      [ i \in 1..Len(drugWarnings) |->
          [text   |-> drugWarnings[i].interacting_drug,
           detail |-> firstTruthy(drugWarnings[i].effect, drugWarnings[i].detail, "Use caution", "Use caution")] ]

STATIC_ALTERNATIVES == << "Acetaminophen (Tylenol)", "Topical creams", "Heat/ice therapy" >>

\* a bug: a safetyScore of exactly 50 also gets the static list
alternativesAfterPush_inclusive(assessment) ==
  IF /\ Len(assessment.alternatives_to_consider) = 0
     /\ safetyScoreOf(assessment.risk_score) <= 50
     /\ \/ includes(toLowerCase(assessment.drug_name), S_ibuprofen)
        \/ includes(toLowerCase(assessment.drug_name), S_aspirin)
  THEN STATIC_ALTERNATIVES
  ELSE assessment.alternatives_to_consider

\* const alternatives = assessment.alternatives_to_consider || [] is the
\* assessment's own array, so the push writes into the assessment.
alternativesAfterPush(assessment) ==
  IF /\ Len(assessment.alternatives_to_consider) = 0
     /\ safetyScoreOf(assessment.risk_score) < 50
     /\ \/ includes(toLowerCase(assessment.drug_name), S_ibuprofen)
        \/ includes(toLowerCase(assessment.drug_name), S_aspirin)
  THEN STATIC_ALTERNATIVES
  ELSE assessment.alternatives_to_consider

\* The assessment object as it is once mapRiskAssessmentToAnalysisResult returned.
assessmentAfterMapping(assessment) ==
  [assessment EXCEPT !.alternatives_to_consider = alternativesAfterPush(assessment)]

\* alternatives: undefined is the empty list with defined = FALSE
mapRiskAssessmentToAnalysisResult(assessment) ==
  LET after == assessmentAfterMapping(assessment)
  IN  [ drugName          |-> assessment.drug_name,
        safetyScore       |-> safetyScoreOf(assessment.risk_score),
        summary           |-> generateSummary(after),
        risks             |-> sliceTo(addWarnings(sideEffectRisks(assessment), assessment.warnings), 10),
        contraindications |-> contraindicationsOf(assessment),
        alternatives      |-> [ defined |-> Len(after.alternatives_to_consider) > 0,
                                list    |-> after.alternatives_to_consider ],
        recommendation    |-> generateRecommendation(after) ]

\* AnalysisResult.tsx: the verdict band of the result screen
verdictText(safetyScore) ==
  IF safetyScore < 40 THEN "Do Not Take"
  ELSE IF safetyScore >= 40 /\ safetyScore < 70 THEN "Use Caution"
  ELSE "Generally Safe"

----------------------------------------------------------------------------
(* State *)

VARIABLES
  backendAvailable,   \* hybridAnalysisService cache: "null", "true" or "false"
  availableDrugs,     \* hybridAnalysisService cache: NULL_LIST or the fetched list
  lastBackendCheck,   \* hybridAnalysisService cache: time of the last check
  now,                \* Date.now()
  servedDrugs,        \* the list GET /api/v1/drugs answers with
  call,               \* the invocations of analyzeDrugSafety, one record each
  engineProfile,      \* assess endpoint, called directly: the request's profile
  engineDrug,         \* assess endpoint, called directly: the DrugRecord looked up
  assessment,         \* assess endpoint, called directly: the RiskAssessment returned
  analysisResult,     \* the AnalysisResult mapped from assessment
  enginePc,           \* "profile", "request", "assessed" or "mapped"
  userProfile,        \* App: profile, the UserProfile saved from the form or imported
  appState,           \* App: the screen shown
  result,             \* App: the AnalysisResult held, or NO_RESULT
  error,              \* App: the error message held, or NO_ERROR
  resultOf            \* the profile the analysis of result was submitted with
                      \* (not a state of the program: kept to state whose result is shown)

serviceVars == <<backendAvailable, availableDrugs, lastBackendCheck, now, servedDrugs, call>>
engineVars  == <<engineProfile, engineDrug, assessment, analysisResult, enginePc, userProfile>>
appVars     == <<appState, result, error, resultOf>>
vars        == <<backendAvailable, availableDrugs, lastBackendCheck, now, servedDrugs, call,
                 engineProfile, engineDrug, assessment, analysisResult, enginePc, userProfile,
                 appState, result, error, resultOf>>

----------------------------------------------------------------------------
(* Bounds and input sets *)

MaxRules == 4    \* interaction rules of the ibuprofen record under assessment
MaxTicks == 2    \* clock ticks after the start

BACKEND_CHECK_INTERVAL == 60000
TICK_MS    == 60000
START_TIME == 90000

Calls == {1, 2}

\* Backend profiles the assess endpoint is called with.
BackendProfiles ==
  { [ age |-> a, sex |-> "female", weight_kg |-> UNDEFINED_NUM,
      pregnant |-> pt[1], pregnancy_trimester |-> pt[2], breastfeeding |-> FALSE,
      conditions |-> cs, current_medications |-> ms, allergies |-> <<>>,
      smoker |-> FALSE, alcohol_use |-> "none",
      egfr |-> e, potassium |-> UNDEFINED_NUM, heart_rate |-> UNDEFINED_NUM,
      history_gi_bleed |-> gi, history_mi |-> mi, history_stroke |-> FALSE,
      history_arrhythmia |-> ar, history_seizures |-> FALSE ] :
      a  \in {8, 30, 70},
      pt \in {<<FALSE, UNDEFINED_NUM>>, <<TRUE, UNDEFINED_NUM>>, <<TRUE, 2>>},
      cs \in {<<>>, <<S_Asthma>>, <<S_Asthma, S_HeartDisease>>},
      ms \in {<<>>, <<S_warfarin>>},
      e  \in {UNDEFINED_NUM, 25, 45},
      gi \in BOOLEAN, mi \in BOOLEAN, ar \in BOOLEAN }

\* Drug records the assess endpoint looks up: the Knowledge Base entries, the
\* ibuprofen entry with each prefix of its interaction rules, the salbutamol
\* entry without its alternatives, the ibuprofen entry with nine side effects.
DrugRecords ==
  { [IbuprofenRecord EXCEPT !.interactions =
       SubSeq(IbuprofenInteractions, 1, Min(k, Len(IbuprofenInteractions)))] : k \in 0..MaxRules }
  \cup {SalbutamolRecord, [SalbutamolRecord EXCEPT !.alternatives = <<>>]}
  \cup {IbuprofenLabelRecord}

\* Every interaction rule a record may be extended with.
InteractionRules ==
  { IbuprofenInteractions[i] : i \in 1..Len(IbuprofenInteractions) }
  \cup { SalbutamolRecord.interactions[i] : i \in 1..Len(SalbutamolRecord.interactions) }

NO_VALUE == <<>>

NO_RESULT == <<>>   \* result: null
NO_ERROR  == ""     \* error: null

\* App: useState(AppState.ONBOARDING), useState(null), useState(null)
AppStart ==
  /\ appState = "ONBOARDING"
  /\ result = NO_RESULT
  /\ error = NO_ERROR
  /\ resultOf = NO_VALUE

\* App.tsx: the profile before the form is saved
DEFAULT_PROFILE ==
  [age |-> 0, gender |-> "Male", weight |-> 0, height |-> 0,
   ethnicity |-> "", bloodType |-> "", conditions |-> <<>>]

----------------------------------------------------------------------------
(* The assess endpoint, called directly *)

EngineInit ==
  /\ engineProfile \in BackendProfiles
  /\ engineDrug \in DrugRecords
  /\ assessment = NO_VALUE
  /\ analysisResult = NO_VALUE
  /\ enginePc = "request"
  /\ userProfile = DEFAULT_PROFILE
  /\ AppStart

\* POST /api/v1/assess answered by the engine
Assess ==
  /\ enginePc = "request"
  /\ assessment' = evaluate(engineProfile, engineDrug)
  /\ enginePc' = "assessed"
  /\ UNCHANGED <<engineProfile, engineDrug, analysisResult, userProfile>>
  /\ UNCHANGED serviceVars
  /\ UNCHANGED appVars

\* mapRiskAssessmentToAnalysisResult(assessment)
MapAssessment ==
  /\ enginePc = "assessed"
  /\ analysisResult' = mapRiskAssessmentToAnalysisResult(assessment)
  /\ assessment' = assessmentAfterMapping(assessment)
  /\ enginePc' = "mapped"
  /\ UNCHANGED <<engineProfile, engineDrug, userProfile>>
  /\ UNCHANGED serviceVars
  /\ UNCHANGED appVars

\* the same patient is assessed against another drug record
NewRequest ==
  /\ enginePc = "mapped"
  /\ engineDrug' \in DrugRecords
  /\ assessment' = NO_VALUE
  /\ analysisResult' = NO_VALUE
  /\ enginePc' = "request"
  /\ UNCHANGED <<engineProfile, userProfile>>
  /\ UNCHANGED serviceVars
  /\ UNCHANGED appVars

----------------------------------------------------------------------------
(* The profile form, and one analysis after the other with the saved       *)
(* profile: mapUserProfileToBackend, the assess endpoint, the mapping back *)

S_Migraine          == <<"M","i","g","r","a","i","n","e">>
S_HeartAttackStroke == <<"H","e","a","r","t"," ","A","t","t","a","c","k",","," ","S","t","r","o","k","e">>
S_AFib_in           == <<" ","A","F","i","b"," ">>
S_AFib              == <<"A","F","i","b">>
S_EPILEPSY          == <<"E","P","I","L","E","P","S","Y">>

MaxConditions == 2   \* conditions a profile lists

\* COMMON_CONDITIONS, the ones the analyses below toggle
CommonConditions == {S_Pregnancy, S_HeartDisease, S_Asthma}

\* texts typed into the custom condition field
CustomConditions == {S_StomachUlcer, S_Migraine, S_HeartAttackStroke, S_AFib_in, S_EPILEPSY}

\* values typed into the age field (Number(value)) and picked in the gender select
FormAges    == {-5, 30}
FormGenders == {"Female", "Other"}

\* ProfileForm.handleChange for the fields age and gender
handleChange(p, name, value) ==
  IF name = "age" THEN [p EXCEPT !.age = value] ELSE [p EXCEPT !.gender = value]

\* ProfileForm.toggleCondition
toggleCondition(p, condition) ==
  [p EXCEPT !.conditions =
     IF arrayIncludes(@, condition)
     THEN SelectSeq(@, LAMBDA c : c # condition)
     ELSE Append(@, condition)]

\* ProfileForm.addCustomCondition
addCustomCondition(p, customCondition) ==
  IF trim(customCondition) # S_empty /\ ~arrayIncludes(p.conditions, trim(customCondition))
  THEN [p EXCEPT !.conditions = Append(@, trim(customCondition))]
  ELSE p

HandleChange ==
  /\ enginePc = "profile"
  /\ \/ \E a \in FormAges : userProfile' = handleChange(userProfile, "age", a)
     \/ \E g \in FormGenders : userProfile' = handleChange(userProfile, "gender", g)
  /\ UNCHANGED <<engineProfile, engineDrug, assessment, analysisResult, enginePc>>
  /\ UNCHANGED serviceVars
  /\ UNCHANGED appVars

ToggleCondition ==
  /\ enginePc = "profile"
  /\ \E condition \in CommonConditions :
       /\ arrayIncludes(userProfile.conditions, condition) \/ Len(userProfile.conditions) < MaxConditions
       /\ userProfile' = toggleCondition(userProfile, condition)
  /\ UNCHANGED <<engineProfile, engineDrug, assessment, analysisResult, enginePc>>
  /\ UNCHANGED serviceVars
  /\ UNCHANGED appVars

AddCustomCondition ==
  /\ enginePc = "profile"
  /\ Len(userProfile.conditions) < MaxConditions
  /\ \E customCondition \in CustomConditions :
       userProfile' = addCustomCondition(userProfile, customCondition)
  /\ UNCHANGED <<engineProfile, engineDrug, assessment, analysisResult, enginePc>>
  /\ UNCHANGED serviceVars
  /\ UNCHANGED appVars

\* analyzeDrugSafety with a supported drug: the saved profile is mapped and
\* the assess request is sent
MapProfile ==
  /\ enginePc = "profile"
  /\ \E i \in 1..Len(KnowledgeBase) : engineDrug' = KnowledgeBase[i]
  /\ engineProfile' = mapUserProfileToBackend(userProfile)
  /\ enginePc' = "request"
  /\ UNCHANGED <<assessment, analysisResult, userProfile>>
  /\ UNCHANGED serviceVars
  /\ UNCHANGED appVars

\* handleReset, handleBack: from the result back to the input and the form
BackToProfile ==
  /\ enginePc = "mapped"
  /\ engineProfile' = NO_VALUE
  /\ assessment' = NO_VALUE
  /\ analysisResult' = NO_VALUE
  /\ enginePc' = "profile"
  /\ UNCHANGED <<engineDrug, userProfile>>
  /\ UNCHANGED serviceVars
  /\ UNCHANGED appVars

----------------------------------------------------------------------------
(* hybridAnalysisService: inputs *)

S_Advil_in   == <<" ","A","d","v","i","l">>
S_Ventolin   == <<"V","e","n","t","o","l","i","n">>

P_healthy ==
  [age |-> 30, gender |-> "Male", weight |-> 70, height |-> 180,
   ethnicity |-> "", bloodType |-> "", conditions |-> <<>>]
P_pregnant ==
  [age |-> 28, gender |-> "Female", weight |-> 0, height |-> 165,
   ethnicity |-> "", bloodType |-> "", conditions |-> <<S_Pregnancy, S_StomachUlcer>>]

UserProfiles == {P_healthy, P_pregnant}

\* (drugText, drugImage given) as DrugInput submits them
AnalysisInputs ==
  { <<S_ibuprofen, FALSE>>, <<S_Advil_in, FALSE>>, <<S_Ventolin, FALSE>>, <<S_empty, TRUE>> }

\* drug names Gemini reads off an image
ExtractedNames == {S_advil, S_aspirin}

\* the same, and the name of a drug Gemini could not read
AllExtractedNames == ExtractedNames \cup {S_empty}

\* lists GET /api/v1/drugs may serve: the Knowledge Base keys, or fewer
ServedLists ==
  { [i \in 1..Len(KnowledgeBase) |-> KnowledgeBase[i].drug_name],
    <<S_salbutamol>> }

\* the same, and no drug at all (data.drugs || [])
AllServedLists == ServedLists \cup { <<>> }

KBLookup(name) ==
  KnowledgeBase[CHOOSE i \in 1..Len(KnowledgeBase) : KnowledgeBase[i].drug_name = name]

IdleCall ==
  [ pc |-> "idle", profile |-> P_healthy, drugText |-> S_empty, drugImage |-> FALSE,
    isBackendReady |-> FALSE, geminiResult |-> NO_VALUE, matchedDrug |-> NULL,
    assessRequest |-> NO_VALUE, assessSent |-> 0, assessError |-> "", geminiCalls |-> 0,
    status |-> "pending", source |-> "none", result |-> NO_VALUE ]

\* the module as loaded: nothing cached, nothing called
ServiceIdle ==
  /\ backendAvailable = "null"
  /\ availableDrugs = NULL_LIST
  /\ lastBackendCheck = 0
  /\ now = START_TIME
  /\ call = [c \in Calls |-> IdleCall]

ServiceInit ==
  /\ ServiceIdle
  /\ servedDrugs \in ServedLists

----------------------------------------------------------------------------
(* hybridAnalysisService: analyzeDrugSafety, one step per stretch of code    *)
(* between two awaited network answers                                      *)

\* mapUserProfileToBackend(profile), tabulated over the profiles in use
backendProfileOf == [p \in UserProfiles |-> mapUserProfileToBackend(p)]

\* body: JSON.stringify({drug_name, profile})
sendAssess(rec, matched, nextPc) ==
  [rec EXCEPT !.pc = nextPc,
              !.matchedDrug = matched,
              !.assessRequest = [drug_name |-> matched,
                                 profile   |-> IF rec.profile \in DOMAIN backendProfileOf
                                               THEN backendProfileOf[rec.profile]
                                               ELSE mapUserProfileToBackend(rec.profile)],
              !.assessSent = @ + 1]

\* Step 5: return geminiAnalyze(profile, drugText, drugImage)
callGeminiText(rec) ==
  [rec EXCEPT !.pc = "gemini_text", !.geminiCalls = @ + 1]

\* a bug: the backend is tried without looking at isBackendReady
textLookup_notReady(rec, drugs) ==
  LET drugName    == trim(rec.drugText)
      matchedDrug == findMatchingDrug(drugName, drugs)
  IN  IF matchedDrug # NULL
      THEN sendAssess(rec, matchedDrug, "assess_text")
      ELSE callGeminiText(rec)

\* Steps 3 and 4: text-based lookup
textLookup(rec, drugs) ==
  LET drugName    == trim(rec.drugText)
      matchedDrug == findMatchingDrug(drugName, drugs)
  IN  IF rec.isBackendReady /\ matchedDrug # NULL
      THEN sendAssess(rec, matchedDrug, "assess_text")
      ELSE callGeminiText(rec)

\* analyzeDrugSafety from the return of ensureBackendState to its next await
afterEnsure(rec, isBackendReady, drugs) ==
  LET r == [rec EXCEPT !.isBackendReady = isBackendReady]
  IN  IF r.drugImage /\ trim(r.drugText) = S_empty
      THEN [r EXCEPT !.pc = "gemini_image", !.geminiCalls = @ + 1]
      ELSE textLookup(r, drugs)

\* analyzeDrugSafety is called; ensureBackendState up to its first await
StartStep(c, p, in) ==
  /\ call[c].pc \in {"idle", "done"}
  /\ LET rec == [IdleCall EXCEPT !.profile = p, !.drugText = in[1], !.drugImage = in[2]]
     IN  IF backendAvailable = "null" \/ now - lastBackendCheck > BACKEND_CHECK_INTERVAL
         THEN /\ lastBackendCheck' = now
              /\ call' = [call EXCEPT ![c] = [rec EXCEPT !.pc = "health"]]
              /\ UNCHANGED <<backendAvailable, availableDrugs>>
         ELSE /\ call' = [call EXCEPT ![c] = afterEnsure(rec, backendAvailable = "true", availableDrugs)]
              /\ UNCHANGED <<backendAvailable, availableDrugs, lastBackendCheck>>
  /\ UNCHANGED <<now, servedDrugs>>

Start(c) ==
  /\ \E p \in UserProfiles, in \in AnalysisInputs : StartStep(c, p, in)
  /\ UNCHANGED engineVars
  /\ UNCHANGED appVars

\* checkBackendHealth answered: response.ok, or false on any failure
HealthReturnStep(c) ==
  /\ call[c].pc = "health"
  /\ \E ok \in BOOLEAN :
       IF ok
       THEN /\ backendAvailable' = "true"
            /\ call' = [call EXCEPT ![c].pc = "drugs"]
            /\ UNCHANGED availableDrugs
       ELSE /\ backendAvailable' = "false"
            /\ availableDrugs' = NULL_LIST
            /\ call' = [call EXCEPT ![c] = afterEnsure(call[c], FALSE, NULL_LIST)]
  /\ UNCHANGED <<lastBackendCheck, now, servedDrugs>>

HealthReturn(c) ==
  /\ HealthReturnStep(c)
  /\ UNCHANGED engineVars
  /\ UNCHANGED appVars

\* getAvailableDrugs answered: the list, or an error
DrugsReturnStep(c) ==
  /\ call[c].pc = "drugs"
  /\ \E ok \in BOOLEAN :
       IF ok
       THEN /\ availableDrugs' = servedDrugs
            /\ call' = [call EXCEPT ![c] = afterEnsure(call[c], backendAvailable = "true", servedDrugs)]
            /\ UNCHANGED backendAvailable
       ELSE /\ backendAvailable' = "false"
            /\ availableDrugs' = NULL_LIST
            /\ call' = [call EXCEPT ![c] = afterEnsure(call[c], FALSE, NULL_LIST)]
  /\ UNCHANGED <<lastBackendCheck, now, servedDrugs>>

DrugsReturn(c) ==
  /\ DrugsReturnStep(c)
  /\ UNCHANGED engineVars
  /\ UNCHANGED appVars

\* what the assess endpoint answers to a request: an assessment of a drug of
\* the Knowledge Base it serves
assessResponse(request) ==
  evaluate(request.profile, KBLookup(request.drug_name))

backendResolved(rec) ==
  [rec EXCEPT !.pc = "done", !.status = "resolved", !.source = "backend",
              !.result = mapRiskAssessmentToAnalysisResult(assessResponse(rec.assessRequest))]

\* what is thrown inside the try block once the assess request is sent:
\* `Drug not supported: ${drugName}` on a drug_not_supported answer, another
\* Error on any other failure or timeout of assessDrugRisk or out of
\* mapRiskAssessmentToAnalysisResult
AssessErrors == {"drug_not_supported", "failed"}

\* a bug: the error of assessDrugRisk is not caught
assessFailedText_rethrown(rec, err) ==
  [rec EXCEPT !.pc = "done", !.status = "rejected", !.assessError = err]

\* text path: catch (err) { console.warn(...) }, then Step 5
assessFailedText(rec, err) ==
  [callGeminiText(rec) EXCEPT !.assessError = err]

\* a bug: the error is not caught on the image path
assessFailedImage_rethrown(rec, err) ==
  [rec EXCEPT !.pc = "done", !.status = "rejected", !.assessError = err]

\* image path: catch (err) { console.warn(...) }, then return geminiResult
assessFailedImage(rec, err) ==
  [rec EXCEPT !.pc = "done", !.status = "resolved", !.source = "gemini",
              !.result = rec.geminiResult, !.assessError = err]

\* geminiAnalyze(profile, '', drugImage) answered on the image path, with a
\* drug name out of names or with an error
GeminiImageExtracted(c, names) ==
  /\ call[c].pc = "gemini_image"
  /\ \/ \E name \in names :
          LET r           == [call[c] EXCEPT !.geminiResult = [drugName |-> name]]
              matchedDrug == findMatchingDrug(name, availableDrugs)
          IN  call' = [call EXCEPT ![c] =
                IF r.isBackendReady /\ matchedDrug # NULL
                THEN sendAssess(r, matchedDrug, "assess_image")
                ELSE [r EXCEPT !.pc = "done", !.status = "resolved",
                               !.source = "gemini", !.result = r.geminiResult]]
     \/ call' = [call EXCEPT ![c] = [@ EXCEPT !.pc = "done", !.status = "rejected"]]
  /\ UNCHANGED <<backendAvailable, availableDrugs, lastBackendCheck, now, servedDrugs>>

GeminiImageReturnStep(c) == GeminiImageExtracted(c, ExtractedNames)

GeminiImageReturn(c) ==
  /\ GeminiImageReturnStep(c)
  /\ UNCHANGED engineVars
  /\ UNCHANGED appVars

\* assessDrugRisk answered on the image path: the assessment, or an error,
\* which is caught
AssessImageReturnStep(c) ==
  /\ call[c].pc = "assess_image"
  /\ \/ /\ arrayIncludes(servedDrugs, call[c].assessRequest.drug_name)
        /\ call' = [call EXCEPT ![c] = backendResolved(call[c])]
     \/ \E err \in AssessErrors :
          call' = [call EXCEPT ![c] = assessFailedImage(call[c], err)]
  /\ UNCHANGED <<backendAvailable, availableDrugs, lastBackendCheck, now, servedDrugs>>

AssessImageReturn(c) ==
  /\ AssessImageReturnStep(c)
  /\ UNCHANGED engineVars
  /\ UNCHANGED appVars

\* assessDrugRisk answered on the text path
AssessTextReturnStep(c) ==
  /\ call[c].pc = "assess_text"
  /\ \/ /\ arrayIncludes(servedDrugs, call[c].assessRequest.drug_name)
        /\ call' = [call EXCEPT ![c] = backendResolved(call[c])]
     \/ \E err \in AssessErrors :
          call' = [call EXCEPT ![c] = assessFailedText(call[c], err)]
  /\ UNCHANGED <<backendAvailable, availableDrugs, lastBackendCheck, now, servedDrugs>>

AssessTextReturn(c) ==
  /\ AssessTextReturnStep(c)
  /\ UNCHANGED engineVars
  /\ UNCHANGED appVars

\* geminiAnalyze(profile, drugText, drugImage) answered on the text path
GeminiTextReturnStep(c) ==
  /\ call[c].pc = "gemini_text"
  /\ \/ call' = [call EXCEPT ![c] = [@ EXCEPT !.pc = "done", !.status = "resolved",
                                              !.source = "gemini",
                                              !.result = [drugName |-> trim(call[c].drugText)]]]
     \/ call' = [call EXCEPT ![c] = [@ EXCEPT !.pc = "done", !.status = "rejected"]]
  /\ UNCHANGED <<backendAvailable, availableDrugs, lastBackendCheck, now, servedDrugs>>

GeminiTextReturn(c) ==
  /\ GeminiTextReturnStep(c)
  /\ UNCHANGED engineVars
  /\ UNCHANGED appVars

\* time passes
Tick ==
  /\ now + TICK_MS <= START_TIME + MaxTicks * TICK_MS
  /\ now' = now + TICK_MS
  /\ UNCHANGED <<backendAvailable, availableDrugs, lastBackendCheck, servedDrugs, call>>
  /\ UNCHANGED engineVars
  /\ UNCHANGED appVars

----------------------------------------------------------------------------
(* App (the variant with the health import): the screens, the saved        *)
(* profile, the result held, and handleAnalyze around analyzeDrugSafety    *)

S_Hypertension    == <<"H","y","p","e","r","t","e","n","s","i","o","n">>
S_HighCholesterol == <<"H","i","g","h"," ","C","h","o","l","e","s","t","e","r","o","l">>
S_Diabetes        == <<"D","i","a","b","e","t","e","s">>
S_KidneyDisease   == <<"K","i","d","n","e","y"," ","D","i","s","e","a","s","e">>

APPLE_HEALTH_MOCK ==
  [age |-> 45, gender |-> "Female", weight |-> 68, height |-> 165,
   ethnicity |-> "Caucasian", bloodType |-> "A+",
   conditions |-> <<S_Hypertension, S_HighCholesterol>>]

HEALTH_CONNECT_MOCK ==
  [age |-> 62, gender |-> "Male", weight |-> 82, height |-> 178,
   ethnicity |-> "Asian", bloodType |-> "O+",
   conditions |-> <<S_Diabetes, S_HeartDisease, S_KidneyDisease>>]

\* what DrugInput submits in the analyses below: a drug name, or a photo
AppInputs == { <<S_ibuprofen, FALSE>>, <<S_empty, TRUE>> }

\* what the profile form saves: the profile it was opened with, as it is or
\* with the condition Pregnancy toggled
FormSaves(p) == {p, toggleCondition(p, S_Pregnancy)}

assessVars == <<engineProfile, engineDrug, assessment, analysisResult, enginePc>>

startOnboarding ==
  /\ appState = "ONBOARDING"
  /\ appState' = "PROFILE"
  /\ UNCHANGED <<userProfile, result, error, resultOf>>
  /\ UNCHANGED serviceVars
  /\ UNCHANGED assessVars

\* from the buttons of the landing page and of the profile form
handleHealthImport ==
  /\ appState \in {"ONBOARDING", "PROFILE"}
  /\ \E source \in {"apple", "android"} :
       userProfile' = IF source = "apple" THEN APPLE_HEALTH_MOCK ELSE HEALTH_CONNECT_MOCK
  /\ appState' = "INPUT"
  /\ UNCHANGED <<result, error, resultOf>>
  /\ UNCHANGED serviceVars
  /\ UNCHANGED assessVars

handleProfileSave ==
  /\ appState = "PROFILE"
  /\ \E data \in FormSaves(userProfile) : userProfile' = data
  /\ appState' = "INPUT"
  /\ UNCHANGED <<result, error, resultOf>>
  /\ UNCHANGED serviceVars
  /\ UNCHANGED assessVars

\* the invocations of analyzeDrugSafety the App has in flight: one at a time
AppCalls == {1}

\* handleAnalyze up to the first network wait of analyzeDrugSafety(profile, text, image)
handleAnalyze(c) ==
  /\ appState = "INPUT"
  /\ \E in \in AppInputs : StartStep(c, userProfile, in)
  /\ appState' = "ANALYZING"
  /\ error' = NO_ERROR
  /\ UNCHANGED <<userProfile, result, resultOf>>
  /\ UNCHANGED assessVars

\* handleAnalyze after `await analyzeDrugSafety(...)`, run when invocation c
\* settles: setResult(data), setAppState(RESULTS), or the catch block
analysisSettled(c) ==
  IF call'[c].pc = "done"
  THEN IF call'[c].status = "resolved"
       THEN /\ result' = call'[c].result
            /\ resultOf' = call'[c].profile
            /\ appState' = "RESULTS"
            /\ UNCHANGED error
       ELSE /\ error' = "analysis failed"
            /\ appState' = "INPUT"
            /\ UNCHANGED <<result, resultOf>>
  ELSE UNCHANGED appVars

AppHealthReturn(c) ==
  /\ HealthReturnStep(c)
  /\ analysisSettled(c)
  /\ UNCHANGED engineVars

AppDrugsReturn(c) ==
  /\ DrugsReturnStep(c)
  /\ analysisSettled(c)
  /\ UNCHANGED engineVars

AppGeminiImageReturn(c) ==
  /\ GeminiImageReturnStep(c)
  /\ analysisSettled(c)
  /\ UNCHANGED engineVars

AppAssessImageReturn(c) ==
  /\ AssessImageReturnStep(c)
  /\ analysisSettled(c)
  /\ UNCHANGED engineVars

AppAssessTextReturn(c) ==
  /\ AssessTextReturnStep(c)
  /\ analysisSettled(c)
  /\ UNCHANGED engineVars

AppGeminiTextReturn(c) ==
  /\ GeminiTextReturnStep(c)
  /\ analysisSettled(c)
  /\ UNCHANGED engineVars

\* the button of the result screen
handleReset ==
  /\ appState = "RESULTS" /\ result # NO_RESULT
  /\ result' = NO_RESULT
  /\ resultOf' = NO_VALUE
  /\ appState' = "INPUT"
  /\ UNCHANGED <<userProfile, error>>
  /\ UNCHANGED serviceVars
  /\ UNCHANGED assessVars

\* a bug: Back leaves the analysis screen too
backTarget_fromAnalyzing(state) ==
  IF state = "RESULTS" THEN "INPUT"
  ELSE IF state \in {"INPUT", "ANALYZING"} THEN "PROFILE"
  ELSE IF state = "PROFILE" THEN "ONBOARDING"
  ELSE state

\* handleBack: the screen it sets, or the one shown when it sets none
backTarget(state) ==
  IF state = "RESULTS" THEN "INPUT"
  ELSE IF state = "INPUT" THEN "PROFILE"
  ELSE IF state = "PROFILE" THEN "ONBOARDING"
  ELSE state

\* the Back button of the header, shown on every screen but the landing page
handleBack ==
  /\ appState # "ONBOARDING"
  /\ appState' = backTarget(appState)
  /\ UNCHANGED <<userProfile, result, error, resultOf>>
  /\ UNCHANGED serviceVars
  /\ UNCHANGED assessVars

\* the Back button in the bottom corner: onClick={() => setAppState(AppState.ONBOARDING)}
bottomBack ==
  /\ appState # "ONBOARDING"
  /\ appState' = "ONBOARDING"
  /\ UNCHANGED <<userProfile, result, error, resultOf>>
  /\ UNCHANGED serviceVars
  /\ UNCHANGED assessVars

----------------------------------------------------------------------------
(* Specifications *)

\* the assess endpoint is not called directly
EngineUnused ==
  /\ engineProfile = mapUserProfileToBackend(P_healthy)
  /\ engineDrug = SalbutamolRecord
  /\ assessment = NO_VALUE
  /\ analysisResult = NO_VALUE
  /\ enginePc = "request"
  /\ userProfile = DEFAULT_PROFILE
  /\ AppStart

Init == ServiceInit /\ EngineUnused

Next ==
  \/ \E c \in Calls : Start(c)
  \/ \E c \in Calls : HealthReturn(c)
  \/ \E c \in Calls : DrugsReturn(c)
  \/ \E c \in Calls : GeminiImageReturn(c)
  \/ \E c \in Calls : AssessImageReturn(c)
  \/ \E c \in Calls : AssessTextReturn(c)
  \/ \E c \in Calls : GeminiTextReturn(c)
  \/ Tick

Spec == Init /\ [][Next]_vars

EngineSpecInit ==
  /\ EngineInit
  /\ ServiceIdle
  /\ servedDrugs = <<>>

EngineNext == Assess \/ MapAssessment \/ NewRequest

SpecEngine == EngineSpecInit /\ [][EngineNext]_vars

ProfileInit ==
  /\ userProfile = DEFAULT_PROFILE
  /\ engineProfile = NO_VALUE
  /\ engineDrug = IbuprofenRecord
  /\ assessment = NO_VALUE
  /\ analysisResult = NO_VALUE
  /\ enginePc = "profile"
  /\ AppStart
  /\ ServiceIdle
  /\ servedDrugs = <<>>

ProfileNext ==
  \/ HandleChange
  \/ ToggleCondition
  \/ AddCustomCondition
  \/ MapProfile
  \/ Assess
  \/ MapAssessment
  \/ BackToProfile

SpecProfile == ProfileInit /\ [][ProfileNext]_vars

AppInit == ServiceInit /\ EngineUnused

AppNext ==
  \/ startOnboarding
  \/ handleHealthImport
  \/ handleProfileSave
  \/ \E c \in AppCalls : handleAnalyze(c)
  \/ \E c \in AppCalls : AppHealthReturn(c)
  \/ \E c \in AppCalls : AppDrugsReturn(c)
  \/ \E c \in AppCalls : AppGeminiImageReturn(c)
  \/ \E c \in AppCalls : AppAssessImageReturn(c)
  \/ \E c \in AppCalls : AppAssessTextReturn(c)
  \/ \E c \in AppCalls : AppGeminiTextReturn(c)
  \/ handleReset
  \/ handleBack
  \/ bottomBack
  \/ Tick

SpecApp == AppInit /\ [][AppNext]_vars

\* the App without the health import and without the Back button in the
\* bottom corner
SimpleAppNext ==
  \/ startOnboarding
  \/ handleProfileSave
  \/ \E c \in AppCalls : handleAnalyze(c)
  \/ \E c \in AppCalls : AppHealthReturn(c)
  \/ \E c \in AppCalls : AppDrugsReturn(c)
  \/ \E c \in AppCalls : AppGeminiImageReturn(c)
  \/ \E c \in AppCalls : AppAssessImageReturn(c)
  \/ \E c \in AppCalls : AppAssessTextReturn(c)
  \/ \E c \in AppCalls : AppGeminiTextReturn(c)
  \/ handleReset
  \/ handleBack
  \/ Tick

SpecSimpleApp == AppInit /\ [][SimpleAppNext]_vars

\* one invocation of analyzeDrugSafety after the other, with every list the
\* backend may serve and every name Gemini may extract
LookupCalls == {1}

LookupInit ==
  /\ ServiceIdle
  /\ servedDrugs \in AllServedLists
  /\ EngineUnused

LookupGeminiImageReturn(c) ==
  /\ GeminiImageExtracted(c, AllExtractedNames)
  /\ UNCHANGED engineVars
  /\ UNCHANGED appVars

LookupNext ==
  \/ \E c \in LookupCalls : Start(c)
  \/ \E c \in LookupCalls : HealthReturn(c)
  \/ \E c \in LookupCalls : DrugsReturn(c)
  \/ \E c \in LookupCalls : LookupGeminiImageReturn(c)
  \/ \E c \in LookupCalls : AssessImageReturn(c)
  \/ \E c \in LookupCalls : AssessTextReturn(c)
  \/ \E c \in LookupCalls : GeminiTextReturn(c)
  \/ Tick

SpecLookup == LookupInit /\ [][LookupNext]_vars

----------------------------------------------------------------------------
(* Properties of the risk engine (SpecEngine) *)

assessed == enginePc \in {"assessed", "mapped"}

someContraindicationHolds ==
  \E i \in 1..Len(engineDrug.contraindications) :
    Holds(engineDrug.contraindications[i].pred, engineProfile)

\* C1. Hard-stop dominance: whenever at least one contraindication rule of
\* the drug holds of the profile, the assessment has can_take = false and
\* overall_risk_level = contraindicated, whatever the score and whatever
\* other rules matched.
HardStopDominance ==
  (assessed /\ someContraindicationHolds) =>
    /\ assessment.can_take = FALSE
    /\ assessment.overall_risk_level = "contraindicated"

\* a hard stop together with matched interaction rules and a saturated score
HardStopDominanceWitness ==
  /\ assessed /\ someContraindicationHolds
  /\ Len(assessment.warnings) > 0
  /\ assessment.risk_score = 100
  /\ assessment.overall_risk_level = "contraindicated"

\* C2. can_take is false exactly when hard_stops is not empty; an assessment
\* without hard stops has can_take = true even at the maximal score 100.
CanTakeIffNoHardStops ==
  assessed =>
    /\ (assessment.can_take = FALSE) <=> (Len(assessment.hard_stops) > 0)
    /\ (Len(assessment.hard_stops) = 0 /\ assessment.risk_score = 100) => assessment.can_take

CanTakeAtMaxScoreWitness ==
  /\ assessed
  /\ Len(assessment.hard_stops) = 0
  /\ assessment.risk_score = 100
  /\ assessment.can_take

levelRank(level) ==
  CASE level = "safe" -> 0 [] level = "caution" -> 1 [] level = "warning" -> 2
    [] level = "danger" -> 3 [] level = "contraindicated" -> 4

\* C3. The level is derived from the score and the hard stops: a hard stop
\* gives contraindicated; otherwise 70 and above is danger, 40 and above
\* warning, 15 and above caution, below 15 safe; the boundary values 15, 40
\* and 70 belong to the higher level, and without hard stops the level never
\* decreases when the score grows.
ThresholdConsistency ==
  /\ assessed =>
       LET s == assessment.risk_score
           l == assessment.overall_risk_level
       IN  IF Len(assessment.hard_stops) > 0 THEN l = "contraindicated"
           ELSE /\ (l = "danger")  <=> (s >= 70)
                /\ (l = "warning") <=> (s >= 40 /\ s < 70)
                /\ (l = "caution") <=> (s >= 15 /\ s < 40)
                /\ (l = "safe")    <=> (s < 15)
  /\ riskLevel(14, FALSE) = "safe"    /\ riskLevel(15, FALSE) = "caution"
  /\ riskLevel(39, FALSE) = "caution" /\ riskLevel(40, FALSE) = "warning"
  /\ riskLevel(69, FALSE) = "warning" /\ riskLevel(70, FALSE) = "danger"
  /\ (assessed /\ Len(assessment.hard_stops) = 0) =>
       \A b \in 0..100 :
         /\ b >= assessment.risk_score =>
              levelRank(riskLevel(b, FALSE)) >= levelRank(assessment.overall_risk_level)
         /\ b <= assessment.risk_score =>
              levelRank(riskLevel(b, FALSE)) <= levelRank(assessment.overall_risk_level)

\* an assessment without hard stops whose score is exactly a boundary
ThresholdBoundaryWitness ==
  /\ assessed
  /\ Len(assessment.hard_stops) = 0
  /\ assessment.risk_score = 40
  /\ assessment.overall_risk_level = "warning"

\* C4. The safetyScore of the mapped result is 100 - risk_score clamped to
\* [0,100], and a safetyScore below 40 (the 'Do Not Take' band) only comes
\* with a level of at least warning.
SafetyScoreInversion ==
  enginePc = "mapped" =>
    /\ analysisResult.safetyScore =
         (IF 100 - assessment.risk_score < 0 THEN 0
          ELSE IF 100 - assessment.risk_score > 100 THEN 100
          ELSE 100 - assessment.risk_score)
    /\ analysisResult.safetyScore < 40 =>
         assessment.overall_risk_level \in {"warning", "danger", "contraindicated"}

\* a result in the 'Do Not Take' band whose level is the lowest one allowed
DoNotTakeBandWitness ==
  /\ enginePc = "mapped"
  /\ analysisResult.safetyScore < 40
  /\ verdictText(analysisResult.safetyScore) = "Do Not Take"
  /\ assessment.overall_risk_level = "warning"

withRule(drug, rule) == [drug EXCEPT !.interactions = Append(@, rule)]

\* C8. Score monotonicity: adding one more interaction rule that matches the
\* profile, everything else unchanged, never decreases risk_score, also when
\* the score is already clamped at 100.
ScoreMonotonicity ==
  assessed =>
    \A rule \in InteractionRules :
      Holds(rule.pred, engineProfile) =>
        evaluate(engineProfile, withRule(engineDrug, rule)).risk_score >= assessment.risk_score

\* a matching rule is added to a drug whose score is positive and not saturated
ScoreMonotonicityWitness ==
  /\ assessed
  /\ assessment.risk_score > 60 /\ assessment.risk_score < 100
  /\ \E rule \in InteractionRules :
       /\ Holds(rule.pred, engineProfile)
       /\ evaluate(engineProfile, withRule(engineDrug, rule)).risk_score = 100

subScoreSum ==
  assessment.detailed_breakdown.contraindication_score
  + assessment.detailed_breakdown.interaction_score
  + assessment.detailed_breakdown.demographic_score
  + assessment.detailed_breakdown.condition_score

\* C9. risk_score equals detailed_breakdown.total_score, which is the sum of
\* the four sub-scores clamped to [0,100].
TotalScoreClamped ==
  assessed =>
    /\ assessment.risk_score = assessment.detailed_breakdown.total_score
    /\ assessment.detailed_breakdown.total_score =
         (IF subScoreSum > 100 THEN 100 ELSE IF subScoreSum < 0 THEN 0 ELSE subScoreSum)
    /\ assessment.risk_score >= 0 /\ assessment.risk_score <= 100

\* the sub-scores add up to more than 100
TotalScoreClampedWitness ==
  /\ assessed
  /\ subScoreSum > 100
  /\ assessment.risk_score = 100

matchedFactors(i) ==
  SelectSeq(engineDrug.side_effects[i].factors, LAMBDA f : Holds(f.pred, engineProfile))

rawFrequency(i) ==
  (engineDrug.side_effects[i].base_frequency * ProductOfFactors(matchedFactors(i))) \div MULT_ONE

\* C10. Frequency clamping: every personalized_frequency is the base
\* frequency times the product of the matched factor multipliers of that side
\* effect, clamped into [0,1], also when several multipliers compound.
FrequencyClamped ==
  assessed =>
    \A i \in 1..Len(assessment.personalized_side_effects) :
      LET f == assessment.personalized_side_effects[i].personalized_frequency
      IN  /\ f = (IF rawFrequency(i) > FREQ_ONE THEN FREQ_ONE
                  ELSE IF rawFrequency(i) < 0 THEN 0 ELSE rawFrequency(i))
          /\ f >= 0 /\ f <= FREQ_ONE
          /\ enginePc = "mapped" => analysisResult.risks[i].probability.tenths <= 1000

\* two multipliers above 1 compound to a frequency above 1
FrequencyClampedWitness ==
  /\ enginePc = "mapped"
  /\ \E i \in 1..Len(assessment.personalized_side_effects) :
       /\ Len(matchedFactors(i)) >= 2
       /\ rawFrequency(i) > FREQ_ONE
       /\ assessment.personalized_side_effects[i].personalized_frequency = FREQ_ONE

----------------------------------------------------------------------------
(* Properties of the hybrid analysis service (Spec) *)

imagePath(r) == r.drugImage /\ trim(r.drugText) = S_empty

\* the drug an invocation is about is known: the text, or the name read off the image
requestedKnown(r) == r.pc # "idle" /\ (imagePath(r) => r.geminiResult # NO_VALUE)

requestedDrug(r) == IF imagePath(r) THEN r.geminiResult.drugName ELSE trim(r.drugText)

\* the step of invocation c that takes the text path to the backend or to Gemini
textRouted(c) ==
  /\ call[c].pc \in {"idle", "done", "health", "drugs"}
  /\ call'[c].pc \in {"assess_text", "gemini_text"}

\* the step of invocation c that ends the Gemini call of the image path with a result
imageRouted(c) ==
  /\ call[c].pc = "gemini_image"
  /\ call'[c].pc \in {"assess_image", "done"}
  /\ call'[c].status # "rejected"

RoutingResultInv ==
  \A c \in Calls :
    LET r == call[c]
    IN  /\ r.source = "backend" =>
             /\ r.isBackendReady
             /\ r.assessSent = 1
             /\ r.matchedDrug = findMatchingDrug(requestedDrug(r), servedDrugs)
             /\ arrayIncludes(servedDrugs, r.matchedDrug)
             /\ r.result = mapRiskAssessmentToAnalysisResult(
                             evaluate(mapUserProfileToBackend(r.profile), KBLookup(r.matchedDrug)))
        /\ \/ /\ r.assessSent = 0
              /\ r.source # "backend"
              /\ r.status = "resolved" =>
                   /\ r.source = "gemini"
                   /\ r.result = [drugName |-> requestedDrug(r)]
           \/ ~(requestedKnown(r) /\ findMatchingDrug(requestedDrug(r), servedDrugs) = NULL)

RoutingStep ==
  \A c \in Calls :
    /\ (/\ textRouted(c)
        /\ call'[c].isBackendReady
        /\ findMatchingDrug(trim(call'[c].drugText), availableDrugs') # NULL) =>
          /\ call'[c].pc = "assess_text"
          /\ call'[c].assessSent = 1
          /\ call'[c].assessRequest.drug_name = findMatchingDrug(trim(call'[c].drugText), availableDrugs')
    /\ (/\ imageRouted(c)
        /\ call'[c].isBackendReady
        /\ findMatchingDrug(call'[c].geminiResult.drugName, availableDrugs') # NULL) =>
          /\ call'[c].pc = "assess_image"
          /\ call'[c].assessSent = 1
    /\ (/\ call[c].pc \in {"assess_text", "assess_image"}
        /\ call'[c].pc = "done"
        /\ call'[c].source = "gemini") => call'[c].result = call[c].geminiResult

normalizedText(r) == trim(toLowerCase(r.drugText))

AliasStep ==
  \A c \in Calls :
    (textRouted(c) /\ call'[c].isBackendReady) =>
      /\ (normalizedText(call'[c]) = S_advil /\ arrayIncludes(availableDrugs', S_ibuprofen)) =>
           /\ call'[c].pc = "assess_text"
           /\ call'[c].assessRequest.drug_name = S_ibuprofen
      /\ (normalizedText(call'[c]) = S_ventolin /\ arrayIncludes(availableDrugs', S_salbutamol)) =>
           /\ call'[c].pc = "assess_text"
           /\ call'[c].assessRequest.drug_name = S_salbutamol

AliasSameRequestInv ==
  \A c1, c2 \in Calls :
    (/\ call[c1].assessSent = 1 /\ call[c2].assessSent = 1
     /\ normalizedText(call[c1]) = S_advil
     /\ normalizedText(call[c2]) = S_ibuprofen
     /\ call[c1].profile = call[c2].profile) =>
       /\ call[c1].assessRequest = call[c2].assessRequest
       /\ (call[c1].source = "backend" /\ call[c2].source = "backend") =>
            call[c1].result = call[c2].result

\* C6. Brand-name alias resolution: with ibuprofen in the supported list the
\* text 'advil' resolves to ibuprofen (and 'ventolin' to salbutamol) before
\* the lookup, so that analysing 'advil' and analysing 'ibuprofen' with the
\* same profile send the same assess request and give the same result.
AliasResolution == [] AliasSameRequestInv /\ [][AliasStep]_vars

\* ' Advil' and 'ibuprofen', same profile, both answered by the backend
AliasResolutionWitness ==
  /\ call[1].drugText = S_Advil_in /\ call[2].drugText = S_ibuprofen
  /\ call[1].profile = P_pregnant /\ call[2].profile = P_pregnant
  /\ call[1].source = "backend" /\ call[2].source = "backend"
  /\ call[1].assessRequest.drug_name = S_ibuprofen
  /\ call[1].result = call[2].result

----------------------------------------------------------------------------
(* Properties of the profile mapping (SpecProfile) *)

\* kw, in lower case, occurs in cond when letter case is ignored
containsCI(cond, kw) ==
  \E i \in 1..(Len(cond) - Len(kw) + 1) :
    \A k \in 1..Len(kw) : toLowerChar(cond[i + k - 1]) = kw[k]

\* some condition of the saved profile contains one of the keywords
conditionMentions(kws) ==
  \E i \in 1..Len(userProfile.conditions) :
    \E kw \in kws : containsCI(userProfile.conditions[i], kw)

backendProfileSent == enginePc \in {"request", "assessed", "mapped"}

\* C11. Every history flag of the backend profile of a request is derived
\* from the conditions of the profile being analysed, by case-insensitive
\* substring match, any keyword of the flag in any condition: gi_bleed from
\* 'gi bleed', 'ulcer'; mi from 'heart', 'mi', 'infarction'; stroke from
\* 'stroke'; arrhythmia from 'arrhythmia', 'afib', 'atrial'; seizures from
\* 'seizure', 'epilep'. The flags are those of the current conditions in
\* every request, whatever was analysed before.
HistoryFlagsFromConditions ==
  backendProfileSent =>
    /\ engineProfile.history_gi_bleed   = conditionMentions({K_gi_bleed, K_ulcer})
    /\ engineProfile.history_mi         = conditionMentions({K_heart, K_mi, K_infarction})
    /\ engineProfile.history_stroke     = conditionMentions({K_stroke})
    /\ engineProfile.history_arrhythmia = conditionMentions({K_arrhythmia, K_afib, K_atrial})
    /\ engineProfile.history_seizures   = conditionMentions({K_seizure, K_epilep})
    /\ engineProfile.conditions = userProfile.conditions

\* one condition sets two flags, another one, typed in capitals, a third
HistoryFlagsWitness ==
  /\ backendProfileSent
  /\ userProfile.conditions = <<S_HeartAttackStroke, S_EPILEPSY>>
  /\ engineProfile.history_mi /\ engineProfile.history_stroke
  /\ engineProfile.history_seizures
  /\ ~engineProfile.history_gi_bleed /\ ~engineProfile.history_arrhythmia

\* C12. A profile with a negative age is rejected by the normalization: it
\* is never turned into a backend profile and no assess request carries it.
NegativeAgeRejected ==
  userProfile.age < 0 => ~backendProfileSent

\* a patient pregnant in the second trimester, otherwise unremarkable, as
\* the profile form lets her describe herself
P_trimester2 ==
  [DEFAULT_PROFILE EXCEPT !.age = 30, !.gender = "Female", !.conditions = <<S_Pregnancy>>]

hasPregnancyRule(drug) ==
  \E i \in 1..Len(drug.contraindications) :
    drug.contraindications[i].pred = "pregnancy_trimester_2_3"

\* C13. End to end, the pregnant patient in trimester 2 assessed against a
\* drug with a trimester-2/3 contraindication rule reaches the engine as
\* pregnant = true, pregnancy_trimester = 2 and gets can_take = false, at
\* least one hard stop and the level contraindicated.
PregnancyScenario ==
  (assessed /\ userProfile = P_trimester2 /\ hasPregnancyRule(engineDrug)) =>
    /\ engineProfile.pregnant
    /\ engineProfile.pregnancy_trimester = 2
    /\ assessment.can_take = FALSE
    /\ Len(assessment.hard_stops) >= 1
    /\ assessment.overall_risk_level = "contraindicated"

----------------------------------------------------------------------------
(* Properties of the mapping of an assessment (SpecEngine) *)

mapped == enginePc = "mapped"

severityRank(severity) ==
  CASE severity = "Low" -> 0 [] severity = "Medium" -> 1
    [] severity = "High" -> 2 [] severity = "Critical" -> 3

matchedInteractions ==
  SelectSeq(engineDrug.interactions, LAMBDA r : Holds(r.pred, engineProfile))

\* multipliers around the band boundaries
BandProbes == {100, 149, 150, 151, 199, 200, 201, 299, 300, 301}

\* the entries of the risk list that were pushed for the warning w
warningEntries(w) ==
  { j \in (Len(assessment.personalized_side_effects) + 1)..Len(analysisResult.risks) :
      analysisResult.risks[j].condition =
        firstTruthy(w.reason, w.factor, w.interacting_drug, "Warning") }

\* a matched interaction of 2.0 and more is a warning, a lower one a caution;
\* the mapping has the bands 3.0, 2.0, 1.5 with inclusive boundaries and is
\* monotone; the entry of a side effect carries the mapped severity
SeverityBands ==
  /\ assessed =>
       /\ \A i \in 1..Len(assessment.warnings) : assessment.warnings[i].risk_multiplier >= 200
       /\ \A i \in 1..Len(assessment.cautions) : assessment.cautions[i].risk_multiplier < 200
       /\ Len(assessment.warnings) + Len(assessment.cautions) = Len(matchedInteractions)
       /\ \A i \in 1..Len(matchedInteractions) :
            IF matchedInteractions[i].risk_multiplier >= 200
            THEN \E j \in 1..Len(assessment.warnings) :
                   assessment.warnings[j] = toWarning(matchedInteractions[i])
            ELSE \E j \in 1..Len(assessment.cautions) :
                   assessment.cautions[j] = toWarning(matchedInteractions[i])
  /\ mapMultiplierToSeverity(300) = "Critical" /\ mapMultiplierToSeverity(299) = "High"
  /\ mapMultiplierToSeverity(200) = "High"     /\ mapMultiplierToSeverity(199) = "Medium"
  /\ mapMultiplierToSeverity(150) = "Medium"   /\ mapMultiplierToSeverity(149) = "Low"
  /\ \A a \in BandProbes, b \in BandProbes :
       a <= b => severityRank(mapMultiplierToSeverity(a)) <= severityRank(mapMultiplierToSeverity(b))
  /\ mapped =>
       \A i \in 1..Len(assessment.personalized_side_effects) :
         LET m == assessment.personalized_side_effects[i].risk_multiplier
         IN  /\ analysisResult.risks[i].severity =
                  (IF m >= 300 THEN "Critical" ELSE IF m >= 200 THEN "High"
                   ELSE IF m >= 150 THEN "Medium" ELSE "Low")
             /\ \A b \in BandProbes :
                  /\ b >= m => severityRank(mapMultiplierToSeverity(b)) >= severityRank(analysisResult.risks[i].severity)
                  /\ b <= m => severityRank(mapMultiplierToSeverity(b)) <= severityRank(analysisResult.risks[i].severity)

\* C14, as stated. Severity banding by multiplier, and every entry shown for
\* a warning or a side effect carries the severity the mapping gives for its
\* risk_multiplier.
SeverityByMultiplier ==
  /\ SeverityBands
  /\ mapped =>
       \A i \in 1..Len(assessment.warnings) :
         \A j \in warningEntries(assessment.warnings[i]) :
           analysisResult.risks[j].severity =
             mapMultiplierToSeverity(assessment.warnings[i].risk_multiplier)

\* C14, amended. Severity banding by multiplier; every entry shown for a
\* side effect carries the severity the mapping gives for its
\* risk_multiplier, and every entry shown for a warning carries High, which
\* is the mapping's severity exactly when the multiplier is below 3.0.
SeverityBanding ==
  /\ SeverityBands
  /\ mapped =>
       \A i \in 1..Len(assessment.warnings) :
         \A j \in warningEntries(assessment.warnings[i]) :
           /\ analysisResult.risks[j].severity = "High"
           /\ (mapMultiplierToSeverity(assessment.warnings[i].risk_multiplier) = "High")
                <=> (assessment.warnings[i].risk_multiplier < 300)

\* a warning of multiplier 3.0 shown as High next to a caution and to a side
\* effect shown as Critical
SeverityBandingWitness ==
  /\ mapped
  /\ \E i \in 1..Len(assessment.warnings) :
       /\ assessment.warnings[i].risk_multiplier = 300
       /\ warningEntries(assessment.warnings[i]) # {}
  /\ Len(assessment.cautions) > 0
  /\ \E i \in 1..Len(assessment.personalized_side_effects) :
       analysisResult.risks[i].severity = "Critical"

\* the step in which the assessment the engine returned is mapped
mappingStep == enginePc = "assessed" /\ enginePc' = "mapped"

\* C15. The recommendation of the result is decided from the assessment
\* that was mapped, in this order: can_take false: do not take, with at most
\* 2 of alternatives_to_consider when that list is not empty, else consult a
\* provider; else a recommended_max_dose: the dose and at most 2 monitoring
\* items; else the guidance of the level (warning: consult before taking,
\* caution: generally safe, safe: standard dosing).
RecommendationOrder ==
  [][ mappingStep =>
        LET rec == analysisResult'.recommendation
        IN  IF ~assessment.can_take THEN
              IF Len(assessment.alternatives_to_consider) > 0
              THEN /\ rec.text = "Do not take this medication. Consider these alternatives"
                   /\ Len(rec.items) <= 2
                   /\ rec.items = SubSeq(assessment.alternatives_to_consider, 1, Len(rec.items))
                   /\ Len(rec.items) = 2 \/ Len(rec.items) = Len(assessment.alternatives_to_consider)
              ELSE /\ rec.text = "Do not take this medication. Please consult your healthcare provider for safer alternatives."
                   /\ rec.items = <<>>
            ELSE IF assessment.recommended_max_dose # "" THEN
              /\ rec.text = "You may take this medication. Recommended"
              /\ rec.dose = assessment.recommended_max_dose
              /\ Len(rec.items) <= 2
              /\ rec.items = SubSeq(assessment.monitoring_required, 1, Len(rec.items))
              /\ Len(rec.items) = 2 \/ Len(rec.items) = Len(assessment.monitoring_required)
            ELSE
              /\ assessment.overall_risk_level = "warning" =>
                   rec.text = "Use with caution and consult your healthcare provider before taking."
              /\ assessment.overall_risk_level = "caution" =>
                   rec.text = "Generally safe to use, but follow package directions and stop if you experience adverse effects."
              /\ assessment.overall_risk_level = "safe" =>
                   rec.text = "This medication appears safe for you. Follow standard dosing guidelines."
    ]_vars

RiskLevels == {"safe", "caution", "warning", "danger", "contraindicated"}

\* C16. The summary names the drug, gives the phrase of the risk level, each
\* level its own, and then exactly one clause: the contraindication count
\* when there are hard stops, else the warning count when there are
\* warnings, else the minor precautions when there are cautions, else no
\* major concerns; with a hard stop the other clauses never show.
SummaryClausePriority ==
  /\ mapped =>
       LET s == analysisResult.summary
           l == assessment.overall_risk_level
       IN  /\ s.drug_name = assessment.drug_name
           /\ l = "safe"            => s.phrase = "appears safe for your profile"
           /\ l = "caution"         => s.phrase = "may be used with some caution"
           /\ l = "warning"         => s.phrase = "has notable concerns for your health profile"
           /\ l = "danger"          => s.phrase = "poses significant risks given your health profile"
           /\ l = "contraindicated" => s.phrase = "is not recommended for you"
           /\ IF Len(assessment.hard_stops) > 0
              THEN /\ s.clause = "contraindication(s) to be aware of"
                   /\ s.count = Len(assessment.hard_stops)
              ELSE IF Len(assessment.warnings) > 0
              THEN /\ s.clause = "warning(s) to consider"
                   /\ s.count = Len(assessment.warnings)
              ELSE IF Len(assessment.cautions) > 0
              THEN s.clause = "Minor precautions apply based on your profile"
              ELSE s.clause = "No major concerns were identified based on available data"
  /\ \A l1, l2 \in RiskLevels : l1 # l2 => riskLevelText(l1) # riskLevelText(l2)

\* hard stops, warnings and cautions together: only the hard stops are counted
SummaryClauseWitness ==
  /\ mapped
  /\ Len(assessment.hard_stops) = 2
  /\ Len(assessment.warnings) > 0 /\ Len(assessment.warnings) # 2
  /\ Len(assessment.cautions) > 0
  /\ analysisResult.summary.clause = "contraindication(s) to be aware of"
  /\ analysisResult.summary.count = 2

isNsaidName(name) == containsCI(name, S_ibuprofen) \/ containsCI(name, S_aspirin)

\* C17. The alternatives of the result are the alternatives_to_consider of
\* the assessment that was mapped when that list is not empty; when it is
\* empty they are the static NSAID list if safetyScore < 50 and the drug name
\* contains 'ibuprofen' or 'aspirin', and undefined in every other case.
AlternativesOfResult ==
  [][ mappingStep =>
        LET alt == analysisResult'.alternatives
        IN  IF Len(assessment.alternatives_to_consider) > 0
            THEN alt.defined /\ alt.list = assessment.alternatives_to_consider
            ELSE IF analysisResult'.safetyScore < 50 /\ isNsaidName(assessment.drug_name)
            THEN /\ alt.defined
                 /\ alt.list = << "Acetaminophen (Tylenol)", "Topical creams", "Heat/ice therapy" >>
            ELSE ~alt.defined
    ]_vars

\* ibuprofen, no alternatives in its record, a score just below 50
AlternativesOfResultWitness ==
  /\ mapped
  /\ engineDrug.drug_name = S_ibuprofen /\ engineDrug.alternatives = <<>>
  /\ analysisResult.safetyScore = 45
  /\ analysisResult.alternatives.defined
  /\ analysisResult.alternatives.list = STATIC_ALTERNATIVES

\* C18. mapRiskAssessmentToAnalysisResult leaves the assessment it was given
\* unchanged, and mapping the same assessment once more gives an equal
\* result.
SynthesizerPure ==
  [][ mappingStep =>
        /\ assessment' = assessment
        /\ mapRiskAssessmentToAnalysisResult(assessment') = analysisResult'
    ]_vars

----------------------------------------------------------------------------
(* Properties of the fallback (Spec) *)

\* the step in which invocation c is told drug_not_supported
notSupportedStep(c) ==
  /\ call[c].pc \in {"assess_text", "assess_image"}
  /\ call'[c].assessError = "drug_not_supported"

DrugNotSupportedStep ==
  \A c \in Calls :
    notSupportedStep(c) =>
      /\ call'[c].profile = call[c].profile
      /\ call'[c].drugText = call[c].drugText
      /\ call'[c].drugImage = call[c].drugImage
      /\ call'[c].source # "backend"
      /\ IF call[c].pc = "assess_text"
         THEN /\ call'[c].pc = "gemini_text"
              /\ call'[c].geminiCalls = call[c].geminiCalls + 1
              /\ call'[c].status = "pending"
              /\ call'[c].result = NO_VALUE
         ELSE /\ call'[c].pc = "done"
              /\ call'[c].status = "resolved"
              /\ call'[c].source = "gemini"
              /\ call'[c].result = call[c].geminiResult

DrugNotSupportedInv ==
  \A c \in Calls :
    call[c].assessError = "drug_not_supported" =>
      /\ call[c].source # "backend"
      /\ call[c].geminiCalls = 1
      /\ call[c].status = "resolved" =>
           /\ call[c].source = "gemini"
           /\ call[c].result = [drugName |-> requestedDrug(call[c])]
      /\ call[c].status = "rejected" => ~imagePath(call[c])
      /\ call[c].pc # "done" => call[c].pc = "gemini_text"

\* C19. A drug_not_supported answer of the assess endpoint is caught by
\* analyzeDrugSafety: on the text path the same profile and drug are passed to
\* Gemini, on the image path the result Gemini already gave is returned; the
\* invocation ends with Gemini's result or Gemini's error, never with a
\* result of the backend.
DrugNotSupportedFallback == [] DrugNotSupportedInv /\ [][DrugNotSupportedStep]_vars

\* drug_not_supported on the text path and on the image path, both answered
\* by Gemini
DrugNotSupportedWitness ==
  /\ call[1].assessError = "drug_not_supported" /\ ~imagePath(call[1])
  /\ call[1].status = "resolved" /\ call[1].source = "gemini"
  /\ call[1].assessSent = 1
  /\ call[2].assessError = "drug_not_supported" /\ imagePath(call[2])
  /\ call[2].status = "resolved" /\ call[2].source = "gemini"
  /\ call[2].assessSent = 1

----------------------------------------------------------------------------
(* Properties of the App (SpecApp) *)

resultsShown == appState = "RESULTS" /\ result # NO_RESULT

\* C20. Whenever the RESULTS screen is shown, the result on it comes from an
\* analysis that was submitted with the profile the app holds now.
ResultOfCurrentProfile ==
  resultsShown => resultOf = userProfile

----------------------------------------------------------------------------
(* Properties of the backend state cache (Spec) *)

\* the step in which invocation c is made
called(c) ==
  /\ call[c].pc \in {"idle", "done"}
  /\ call'[c].pc \notin {"idle", "done"}

cacheFresh ==
  backendAvailable # "null" /\ now - lastBackendCheck <= BACKEND_CHECK_INTERVAL

\* a call made within the interval sends no health request (and so no
\* drug-list request) and leaves the cache alone
CachedAnswerStep ==
  \A c \in Calls :
    called(c) /\ cacheFresh =>
      /\ call'[c].pc \notin {"health", "drugs"}
      /\ call'[c].isBackendReady = (backendAvailable = "true")
      /\ UNCHANGED <<backendAvailable, availableDrugs, lastBackendCheck>>

\* a call made after the interval sends a health request
FreshCheckStep ==
  \A c \in Calls :
    called(c) /\ backendAvailable # "null" /\ now - lastBackendCheck > BACKEND_CHECK_INTERVAL =>
      /\ call'[c].pc = "health"
      /\ lastBackendCheck' = now

\* the cache after a failed health check or a failed drug-list fetch
FailureLeavesNoList ==
  backendAvailable = "false" => availableDrugs = NULL_LIST

\* C21. A call made within 60000 ms of the last check is answered from the
\* cache without a health or drug-list request, a call made later starts a
\* fresh check, and while backendAvailable is false after a failed health
\* check or drug-list fetch, availableDrugs is null.
BackendCacheWindow ==
  [] FailureLeavesNoList /\ [][CachedAnswerStep /\ FreshCheckStep]_vars

\* the two parts of C21 about the interval alone
CacheIntervalSteps == [][CachedAnswerStep /\ FreshCheckStep]_vars

\* the step in which ensureBackendState returns to invocation c
ensureReturned(c) ==
  /\ call[c].pc \in {"idle", "done", "health", "drugs"}
  /\ call'[c].pc \notin {"idle", "done", "health", "drugs"}

ReadyWithListStep ==
  \A c \in Calls :
    ensureReturned(c) /\ call'[c].isBackendReady => availableDrugs' # NULL_LIST

\* C22. Whenever ensureBackendState returns true to an invocation, the cached
\* availableDrugs is a list and not null.
ReadyImpliesDrugList == [][ReadyWithListStep]_vars

----------------------------------------------------------------------------
(* Properties of findMatchingDrug (SpecLookup) *)

\* the texts findMatchingDrug is called with
MatchProbes == { in[1] : in \in AnalysisInputs } \cup AllExtractedNames

noDrugList == availableDrugs = NULL_LIST \/ Len(availableDrugs) = 0

MatchListedInv ==
  \A text \in MatchProbes :
    LET m == findMatchingDrug(text, availableDrugs)
    IN  /\ m # NULL => arrayIncludes(availableDrugs, m)
        /\ noDrugList => m = NULL

\* the step in which invocation c sends its assess request
assessSentStep(c) ==
  /\ call[c].pc \notin {"assess_text", "assess_image"}
  /\ call'[c].pc \in {"assess_text", "assess_image"}

MatchListedStep ==
  \A c \in Calls :
    assessSentStep(c) =>
      /\ call'[c].matchedDrug # NULL
      /\ arrayIncludes(availableDrugs', call'[c].matchedDrug)

\* C23. What findMatchingDrug returns is null or an element of availableDrugs,
\* and null when availableDrugs is null or empty; the drug an assess request
\* names is an element of availableDrugs.
MatchedDrugListed == [] MatchListedInv /\ [][MatchListedStep]_vars

\* a brand name was matched to its generic, which the list holds
MatchedDrugListedWitness ==
  \E c \in Calls :
    /\ call[c].pc = "assess_text"
    /\ call[c].drugText = S_Advil_in
    /\ call[c].matchedDrug = S_ibuprofen
    /\ arrayIncludes(availableDrugs, S_ibuprofen)

S_blank == <<" ", " ">>

BlankTexts == {S_empty, S_blank}

BlankUnmatchedInv ==
  \A text \in BlankTexts : findMatchingDrug(text, availableDrugs) = NULL

BlankNotAssessedStep ==
  \A c \in Calls :
    call[c].pc = "gemini_image" /\ call'[c].pc = "assess_image" =>
      trim(call'[c].geminiResult.drugName) # S_empty

\* C24. findMatchingDrug returns null for an empty or blank text, and no
\* assess request is sent for an image whose extracted drug name is empty.
BlankDrugUnmatched == [] BlankUnmatchedInv /\ [][BlankNotAssessedStep]_vars

----------------------------------------------------------------------------
(* Properties of the failure handling of analyzeDrugSafety (Spec) *)

atMostOneRequestEach ==
  \A c \in Calls : call[c].assessSent <= 1 /\ call[c].geminiCalls <= 1

\* invocation c settles in this step
settles(c) == call[c].pc # "done" /\ call'[c].pc = "done"

ContainmentStep ==
  \A c \in Calls :
    /\ call[c].pc \in {"health", "drugs"} => ~settles(c)
    /\ settles(c) /\ call'[c].status = "rejected" =>
         /\ call[c].pc \in {"gemini_image", "gemini_text"}
         /\ call[c].geminiCalls = 1
    /\ settles(c) /\ call[c].pc = "assess_image" /\ call'[c].assessError # "" =>
         /\ call'[c].status = "resolved"
         /\ call'[c].source = "gemini"
         /\ call'[c].result = call[c].geminiResult
    /\ call[c].pc = "assess_text" /\ call'[c].assessError # "" =>
         /\ call'[c].pc = "gemini_text"
         /\ call'[c].geminiCalls = 1

\* C25. A failed health check, drug-list fetch or assess request never
\* rejects analyzeDrugSafety: an invocation is rejected only when its Gemini
\* call is; an invocation sends at most one assess request and makes at most
\* one Gemini call; on the image path a failed assess request returns the
\* result Gemini gave.
FailureContainment == [] atMostOneRequestEach /\ [][ContainmentStep]_vars

\* an invocation with an image ended with Gemini's result after its assess
\* request failed, and another was rejected by Gemini after its health check
\* failed
FailureContainmentWitness ==
  \E c, d \in Calls :
    /\ call[c].pc = "done" /\ call[c].drugImage /\ call[c].assessError = "failed"
    /\ call[c].status = "resolved" /\ call[c].result = call[c].geminiResult
    /\ call[d].pc = "done" /\ call[d].status = "rejected" /\ ~call[d].isBackendReady

----------------------------------------------------------------------------
(* Properties of the screens of the App (SpecSimpleApp) *)

analysisPending == \E c \in AppCalls : call[c].pc \notin {"idle", "done"}

ScreenInv ==
  /\ appState = "RESULTS" => result # NO_RESULT
  /\ appState = "ANALYZING" <=> analysisPending

ScreenStep ==
  /\ \A c \in AppCalls :
       settles(c) =>
         /\ appState = "ANALYZING"
         /\ IF call'[c].status = "resolved"
            THEN /\ appState' = "RESULTS"
                 /\ result' = call'[c].result
                 /\ result' # NO_RESULT
            ELSE /\ appState' = "INPUT"
                 /\ error' # NO_ERROR
  /\ appState = "ANALYZING" /\ appState' # "ANALYZING" => \E c \in AppCalls : settles(c)
  /\ result # NO_RESULT /\ result' = NO_RESULT => appState = "RESULTS" /\ appState' = "INPUT"
  /\ handleBack =>
       /\ appState = "RESULTS" => appState' = "INPUT"
       /\ appState = "INPUT" => appState' = "PROFILE"
       /\ appState = "PROFILE" => appState' = "ONBOARDING"
       /\ appState = "ANALYZING" => appState' = "ANALYZING"

----------------------------------------------------------------------------
(* Properties of an analysis the user has left (SpecApp) *)

LateCompletionStep ==
  \A c \in AppCalls :
    settles(c) /\ appState # "ANALYZING" => UNCHANGED <<appState, result, error>>

\* C27. An analysis that settles after the user has left ANALYZING changes
\* neither the screen nor the result or the error held.
LateCompletionIgnored == [][LateCompletionStep]_vars

----------------------------------------------------------------------------
(* Properties of the recommendation and of the verdict (SpecEngine) *)

S_appearsSafe == "This medication appears safe for you. Follow standard dosing guidelines."

\* C28. The recommendation 'This medication appears safe for you. Follow
\* standard dosing guidelines.' is given only to an assessment of level safe.
AppearsSafeOnlyWhenSafe ==
  mapped =>
    (analysisResult.recommendation.text = S_appearsSafe
       => assessment.overall_risk_level = "safe")

doNotTakeTexts ==
  { "Do not take this medication. Consider these alternatives",
    "Do not take this medication. Please consult your healthcare provider for safer alternatives." }

\* the parts of C29 about the lists and the recommendation
HardStopShown ==
  mapped /\ ~assessment.can_take =>
    /\ Len(analysisResult.contraindications) > 0
    /\ analysisResult.recommendation.text \in doNotTakeTexts

\* C29. The result mapped from an assessment with can_take = false lists at
\* least one contraindication, recommends not to take the medication, and has
\* a safetyScore below 40, which the result screen shows as 'Do Not Take'.
HardStopVerdict ==
  mapped /\ ~assessment.can_take =>
    /\ Len(analysisResult.contraindications) > 0
    /\ analysisResult.recommendation.text \in doNotTakeTexts
    /\ analysisResult.safetyScore < 40
    /\ verdictText(analysisResult.safetyScore) = "Do Not Take"

----------------------------------------------------------------------------
(* Properties of the risks list (SpecEngine) *)

warningLabel(w) == firstTruthy(w.reason, w.factor, w.interacting_drug, "Warning")

\* the parts of C30 about the length, the order and the labels
RisksListShape ==
  mapped =>
    LET risks == analysisResult.risks
        se    == assessment.personalized_side_effects
        ws    == assessment.warnings
        n     == Len(se)
    IN  /\ Len(risks) <= 10
        /\ \A i \in 1..Min(n, Len(risks)) :
             risks[i].condition = se[i].name /\ risks[i].probability.label = "percent"
        /\ \A j \in (n + 1)..Len(risks) :
             /\ risks[j].probability.label = "Elevated"
             /\ \E i \in 1..Len(ws) : warningLabel(ws[i]) = risks[j].condition
        /\ \A j, k \in (n + 1)..Len(risks) :
             j < k =>
               /\ risks[j].condition # risks[k].condition
               /\ \E a, b \in 1..Len(ws) :
                    a < b /\ warningLabel(ws[a]) = risks[j].condition
                          /\ warningLabel(ws[b]) = risks[k].condition

\* C30. The risks list of a mapped result has at most 10 entries, the side
\* effects first and the warnings after them, each in the order of the
\* assessment, no two warning entries with the same label, and for every
\* warning of the assessment an entry with its label.
RisksListComplete ==
  /\ RisksListShape
  /\ mapped =>
       \A i \in 1..Len(assessment.warnings) :
         \E j \in 1..Len(analysisResult.risks) :
           analysisResult.risks[j].condition = warningLabel(assessment.warnings[i])

====
